---- MODULE Spec2Model ----
(***************************************************************************)
(* A model of the sengled client (sengled/src/lib.rs), its device type     *)
(* (sengled/src/device.rs) and the server built on it                      *)
(* (sengled-server/src/main.rs, routes.rs).                                *)
(*                                                                         *)
(* Option<T> is a sequence of length 0 or 1.  Strings that the code        *)
(* formats or parses (device ids, topics, client ids) are sequences of     *)
(* one-character strings; all other strings are TLA+ strings.              *)
(***************************************************************************)
EXTENDS Integers, Sequences, FiniteSets, TLC

VARIABLES
    skip_server_check,  \* Client.skip_server_check
    preferred_qos,      \* Client.preferred_qos
    session,            \* Client.session : Option<String>
    state,              \* Client.state : Option<ClientState>
    clientPc,           \* "idle" | "joining" (inside close) | "closed" (consumed)
    loginOk,            \* history: a login has succeeded on this client
    conns,              \* the event loops created by start, by connection id
    nextConn,           \* id of the next event loop
    subscribed,         \* broker side: connection id -> set of subscribed topics
    shadowSubscribed,   \* the same, had every bulk subscribe been issued one by one
    now,                \* the wall clock (SystemTime), in clock ticks
    clockEpoch,         \* history: how many times the wall clock was set back
    pubLog,             \* history: the records built by publish calls, in call order
    bulk,               \* the set_device_attributes call that is building its body
    closing,            \* the ClientState taken by close (kept as history)
    last,               \* history: the last caller-issued operation and its outcome
    cache,              \* server: AppState.devices, device id -> Device
    serverPc,           \* server: position of main
    response,           \* server: the last HTTP response of a route handler
    inbox,              \* network: connection id -> packets the broker has sent, in order
    disconnected,       \* history: connection id -> poll has returned Disconnected
    polled,             \* history: the last return of a poll call on an EventHandler
    pump,               \* server: the pump task, its position and the event in hand
    snapshot,           \* history: the cache as the initial snapshot left it
    applied,            \* history: <<device, key>> -> value of the last pair applied
    setCall,            \* server: the set_device_attributes route handler in flight
    world,              \* environment: the device's own switch; history: a change went unreported
    refs                \* server: device id -> Refs that toggle handlers hold while they publish

vars == <<skip_server_check, preferred_qos, session, state, clientPc, loginOk,
          conns, nextConn, subscribed, shadowSubscribed, now, clockEpoch,
          pubLog, bulk, closing, last, cache, serverPc, response,
          inbox, disconnected, polled, pump, snapshot, applied, setCall, world, refs>>

clientVars == <<skip_server_check, preferred_qos, session, state, clientPc,
                loginOk, conns, nextConn, subscribed, shadowSubscribed, now,
                clockEpoch, pubLog, bulk, closing, last>>

serverVars == <<cache, serverPc, response>>

inboundVars == <<inbox, disconnected, polled>>

taskVars == <<pump, snapshot, applied, setCall, world, refs>>

\* What no call on the Client touches.
otherVars == <<serverVars, inboundVars, taskVars>>

----------------------------------------------------------------------------
(* Bounds of the model *)

MaxConns == 2
MaxLifeConns == 1
MaxQueue == 1
MaxLog == 2
MaxClock == 2
MaxStepBacks == 1
MaxAttrs == 2
MaxList == 2
MaxInbox == 1
MaxBacklog == 2
MaxToggles == 2
TicksPerMilli == 2

(* Program constants *)

Cap == 10
KeepAliveSecs == 30

----------------------------------------------------------------------------
(* Option<T> *)

NoneV == <<>>
Some(x) == <<x>>
IsSome(o) == o # <<>>
Unwrap(o) == o[1]

Range(s) == {s[i] : i \in 1..Len(s)}

----------------------------------------------------------------------------
(* Inputs *)

Tokens == {"t1", "t2"}
QoSLevels == {"AtMostOnce", "AtLeastOnce", "ExactlyOnce"}
DeviceIds == {<<"A", "1">>, <<"B", "2">>}

ConnIds == 1..MaxConns

----------------------------------------------------------------------------
(* Strings the code formats *)

WifiElement == <<"w", "i", "f", "i", "e", "l", "e", "m", "e", "n", "t", "/">>

\* format!("wifielement/{}/status", device.as_device_mac())
StatusTopic(mac) == WifiElement \o mac \o <<"/", "s", "t", "a", "t", "u", "s">>

\* format!("wifielement/{}/update", device.as_device_mac())
UpdateTopic(mac) == WifiElement \o mac \o <<"/", "u", "p", "d", "a", "t", "e">>

\* format!("{}@lifeApp", session)
ClientId(token) == <<token>> \o <<"@", "l", "i", "f", "e", "A", "p", "p">>

\* impl AsDeviceMac for Device / &Device
DeviceMac(device) == device.mac

\* chrono::Utc::now().timestamp_millis(), the clock being read in ticks
TimestampSeconds(t) == t \div (TicksPerMilli * 1000)
TimestampMillis(t) == t \div TicksPerMilli

----------------------------------------------------------------------------
(* The client's lifecycle, read off its two Option fields *)

Lifecycle ==
    IF IsSome(state) THEN "Connected"
    ELSE IF IsSome(session) THEN "AuthNoTransport"
    ELSE "Unauthenticated"

NoRequest == <<>>

\* What the last caller-issued operation did: its result, the REST requests,
\* subscribe requests and publish requests it emitted, the request it put on
\* the channel, and (for start) the event it waited for.
Outcome(op, result, rest, subs, pubs, req, first) ==
    [op |-> op, pre |-> Lifecycle, authed |-> loginOk, result |-> result,
     rest |-> rest, subs |-> subs, pubs |-> pubs, req |-> req, first |-> first]

Panic(op) == Outcome(op, "panic", 0, 0, 0, NoRequest, "none")

FreshConn == [net |-> "unused", holder |-> "none", clientId |-> <<>>, queue |-> <<>>]

----------------------------------------------------------------------------
(* Client::new and the builder methods *)

ClientNew ==
    /\ preferred_qos = "AtMostOnce"
    /\ session = NoneV
    /\ state = NoneV
    /\ clientPc = "idle"
    /\ loginOk = FALSE
    /\ conns = [c \in ConnIds |-> FreshConn]
    /\ nextConn = 1
    /\ subscribed = [c \in ConnIds |-> {}]
    /\ shadowSubscribed = [c \in ConnIds |-> {}]
    /\ now = 0
    /\ clockEpoch = 0
    /\ pubLog = <<>>
    /\ bulk = NoneV
    /\ closing = NoneV
    /\ last = [op |-> "new", pre |-> "Unauthenticated", authed |-> FALSE,
               result |-> "ok", rest |-> 0, subs |-> 0, pubs |-> 0,
               req |-> NoRequest, first |-> "none"]

ServerNotRunning ==
    /\ cache = <<>>
    /\ serverPc = "off"
    /\ response = [route |-> "none", id |-> <<>>, status |-> 0, value |-> "",
                   cached |-> NoneV, found |-> FALSE, pubs |-> 0, req |-> NoRequest, body |-> {}]

\* No packet has arrived, no poll has returned, no pump task exists.
NoPacket == [kind |-> "none", topic |-> <<>>,
             payload |-> [shape |-> "none", items |-> <<>>]]

NothingPolled == [conn |-> 0, result |-> "none", device |-> <<>>,
                  attributes |-> <<>>, packet |-> NoPacket, after |-> FALSE]

InboundQuiet ==
    /\ inbox = [c \in ConnIds |-> <<>>]
    /\ disconnected = [c \in ConnIds |-> FALSE]
    /\ polled = NothingPolled

PumpNotSpawned ==
    /\ pump = [pc |-> "none", device |-> <<>>, todo |-> <<>>]
    /\ snapshot = <<>>
    /\ applied = <<>>
    /\ setCall = [pc |-> "none", todo |-> <<>>]
    /\ world = [switch |-> "0", missed |-> FALSE]
    /\ refs = <<>>

Init ==
    /\ ClientNew
    /\ skip_server_check = FALSE
    /\ ServerNotRunning
    /\ InboundQuiet
    /\ PumpNotSpawned

\* A caller holding &mut Client (or the Client itself) excludes every call in
\* flight on &Client.
Exclusive == clientPc = "idle" /\ bulk = NoneV
Shared == clientPc = "idle"

----------------------------------------------------------------------------
(* Client::with_preferred_qos, Client::with_skip_server_check *)

WithPreferredQos(qos) ==
    /\ Exclusive
    /\ preferred_qos' = qos
    /\ UNCHANGED <<skip_server_check, session, state, clientPc, loginOk, conns,
                   nextConn, subscribed, shadowSubscribed, now, clockEpoch,
                   pubLog, bulk, closing, last>>

WithSkipServerCheck ==
    /\ Exclusive
    /\ skip_server_check' = TRUE
    /\ UNCHANGED <<preferred_qos, session, state, clientPc, loginOk, conns,
                   nextConn, subscribed, shadowSubscribed, now, clockEpoch,
                   pubLog, bulk, closing, last>>

(* Client::set_session *)

SetSession(value) ==
    /\ Exclusive
    /\ session' = Some(value)
    /\ last' = Outcome("set_session", "ok", 0, 0, 0, NoRequest, "none")
    /\ UNCHANGED <<skip_server_check, preferred_qos, state, clientPc, loginOk,
                   conns, nextConn, subscribed, shadowSubscribed, now,
                   clockEpoch, pubLog, bulk, closing>>

(* Client::login *)

LoginErrors == {"ReqwestError", "SerializationError"}
LoginResponses == Tokens \cup LoginErrors

\* if self.state.is_some() { return Err(Error::LoggedIn); }
LoginRefused == IsSome(state)

Login(resp) ==
    /\ Exclusive
    /\ IF LoginRefused
       THEN /\ last' = Outcome("login", "LoggedIn", 0, 0, 0, NoRequest, "none")
            /\ UNCHANGED <<session, loginOk>>
       ELSE /\ last' = Outcome("login", IF resp \in Tokens THEN "ok" ELSE resp,
                               1, 0, 0, NoRequest, "none")
            /\ session' = IF resp \in Tokens THEN Some(resp) ELSE session
            /\ loginOk' = (loginOk \/ resp \in Tokens)
    /\ UNCHANGED <<skip_server_check, preferred_qos, state, clientPc, conns,
                   nextConn, subscribed, shadowSubscribed, now, clockEpoch,
                   pubLog, bulk, closing>>

----------------------------------------------------------------------------
(* Client::start, Client::create_client_state *)

DiscoveryResults == {"ok", "ReqwestError", "SerializationError", "ParseError"}
FirstEvents == {"ConnAckSuccess", "ConnAckRefused", "OtherPacket", "TransportError"}

\* assert!(self.session.is_some(), ...)
SessionIsSet == IsSome(session)

\* The match on the first events.poll(): only a ConnAck with code Success.
StartAcceptsAnyConnAck(first) == first \in {"ConnAckSuccess", "ConnAckRefused"}
StartAccepts(first) == first = "ConnAckSuccess"

\* The subscriptions of a connection end with the connection.
Cleared(topics, after) ==
    [c \in ConnIds |-> IF after[c].net = "up" THEN topics[c] ELSE {}]

\* The broker ends an older connection that uses the same client id when it
\* accepts a new one.
AfterConnect(c, cid) ==
    [k \in ConnIds |->
        IF k = c
        THEN [net |-> "up", holder |-> "caller", clientId |-> cid, queue |-> <<>>]
        ELSE IF conns[k].net = "up" /\ conns[k].clientId = cid
             THEN [conns[k] EXCEPT !.net = "down"]
             ELSE conns[k]]

Start(disc, first, limit) ==
    /\ Exclusive
    /\ IF ~SessionIsSet \/ ~IsSome(session)
       THEN /\ last' = Panic("start")
            /\ UNCHANGED <<state, conns, nextConn, subscribed, shadowSubscribed>>
       ELSE IF ~skip_server_check /\ disc # "ok"
       THEN /\ last' = Outcome("start", disc, 1, 0, 0, NoRequest, "none")
            /\ UNCHANGED <<state, conns, nextConn, subscribed, shadowSubscribed>>
       ELSE /\ nextConn <= limit
            /\ LET c == nextConn
                   cid == ClientId(Unwrap(session))
                   rest == IF skip_server_check THEN 0 ELSE 1
               IN  IF StartAccepts(first)
                   THEN /\ conns' = AfterConnect(c, cid)
                        /\ subscribed' = Cleared(subscribed, conns')
                        /\ shadowSubscribed' = Cleared(shadowSubscribed, conns')
                        /\ nextConn' = nextConn + 1
                        /\ state' = Some([mqtt |-> c, listener_handle |-> NoneV])
                        /\ last' = Outcome("start", "ok", rest, 0, 0, NoRequest, first)
                   ELSE \* the new client and event loop are dropped on return
                        /\ UNCHANGED <<state, conns, nextConn, subscribed, shadowSubscribed>>
                        /\ last' = Outcome("start", "ConnectionFailure", rest, 0, 0,
                                           NoRequest, first)
    /\ UNCHANGED <<skip_server_check, preferred_qos, session, clientPc, loginOk,
                   now, clockEpoch, pubLog, bulk, closing>>

----------------------------------------------------------------------------
(* EventHandler::spawn_listener *)

SpawnedStateTaken(c) == NoneV
\* if let Some(ref mut state) = client.state { state.listener_handle = Some(..) }
SpawnedState(c) == Some([Unwrap(state) EXCEPT !.listener_handle = Some(c)])

SpawnListener(c) ==
    /\ Exclusive
    /\ conns[c].holder = "caller"
    /\ IF IsSome(state)
       THEN /\ state' = SpawnedState(c)
            /\ conns' = [conns EXCEPT ![c].holder = "listener"]
       ELSE /\ state' = state
            /\ conns' = [conns EXCEPT ![c].holder = "dropped", ![c].net = "down"]
    /\ last' = Outcome("spawn_listener", "ok", 0, 0, 0, NoRequest, "none")
    /\ UNCHANGED <<skip_server_check, preferred_qos, session, clientPc, loginOk,
                   nextConn, subscribed, shadowSubscribed, now, clockEpoch,
                   pubLog, bulk, closing>>

----------------------------------------------------------------------------
(* The request channel of a connection (AsyncClient -> EventLoop) and the   *)
(* broker's side of a connection                                            *)

\* The EventLoop owns the receiving end: once it is dropped, sending fails.
ChannelClosed(c) == conns[c].holder = "dropped"

\* MqttClient::new(mqtt_options, 10): a send waits while the channel is full.
Unbounded(c) == TRUE
HasRoom(c) == Len(conns[c].queue) < Cap

Enqueued(c, req) == [conns EXCEPT ![c].queue = Append(@, req)]

\* The broker adds every filter of a SUBSCRIBE to the connection's set.
BrokerSubscribe(topics, filters) == topics \cup {f.path : f \in Range(filters)}

RECURSIVE BrokerSubscribeEach(_, _)
BrokerSubscribeEach(topics, singles) ==
    IF singles = <<>> THEN topics
    ELSE BrokerSubscribeEach(BrokerSubscribe(topics, Head(singles)), Tail(singles))

\* A SUBSCRIBE without a filter is a protocol violation (MQTT 3.1.1, 3.8.3):
\* it is either let through, or the event loop or the broker ends the
\* connection on it.
EmptySubscribeOutcomes == {"ignored", "refused"}

\* One events.poll() that takes a request from the channel and writes it to
\* the network.  After a DISCONNECT the broker closes the connection.
HandOver(c) ==
    LET req == Head(conns[c].queue)
        outcomes == IF req.type = "Subscribe" /\ req.filters = <<>>
                    THEN EmptySubscribeOutcomes ELSE {"sent"}
    IN  \E outcome \in outcomes :
          /\ conns' = [conns EXCEPT
                         ![c].queue = Tail(@),
                         ![c].net = IF req.type = "Disconnect" \/ outcome = "refused"
                                    THEN "down" ELSE @]
          /\ subscribed' =
                Cleared(IF req.type = "Subscribe"
                        THEN [subscribed EXCEPT ![c] = BrokerSubscribe(@, req.filters)]
                        ELSE subscribed, conns')
          /\ shadowSubscribed' =
                IF req.type = "Subscribe"
                THEN [shadowSubscribed EXCEPT ![c] = BrokerSubscribeEach(@, req.singles)]
                ELSE Cleared(shadowSubscribed, conns')

\* The task of spawn_listener: while let Ok(_event) = self.events.poll().await {}
ListenerPoll(c) ==
    /\ conns[c].holder = "listener"
    /\ IF conns[c].net = "down"
       THEN /\ conns' = [conns EXCEPT ![c].holder = "dropped"]
            /\ UNCHANGED <<subscribed, shadowSubscribed>>
       ELSE /\ conns[c].queue # <<>>
            /\ HandOver(c)
    /\ UNCHANGED <<skip_server_check, preferred_qos, session, state, clientPc,
                   loginOk, nextConn, now, clockEpoch, pubLog, bulk, closing, last>>

\* One iteration of the loop of EventHandler::poll, run by whoever holds the
\* handler, that handles an outgoing request (the Ok(_) => () arm).
HandlerPoll(c) ==
    /\ conns[c].holder = "caller"
    /\ conns[c].net = "up"
    /\ conns[c].queue # <<>>
    /\ HandOver(c)
    /\ UNCHANGED <<skip_server_check, preferred_qos, session, state, clientPc,
                   loginOk, nextConn, now, clockEpoch, pubLog, bulk, closing, last>>

\* The network of a connection fails.
TransportError(c) ==
    /\ conns[c].net = "up"
    /\ conns' = [conns EXCEPT ![c].net = "down"]
    /\ subscribed' = Cleared(subscribed, conns')
    /\ shadowSubscribed' = Cleared(shadowSubscribed, conns')
    /\ UNCHANGED <<skip_server_check, preferred_qos, session, state, clientPc,
                   loginOk, nextConn, now, clockEpoch, pubLog, bulk, closing, last>>

----------------------------------------------------------------------------
(* EventHandler::poll: the inbound side *)

\* [0-9A-F:]
MacChars == {"0", "1", "2", "3", "4", "5", "6", "7", "8", "9",
             "A", "B", "C", "D", "E", "F", ":"}

StatusSuffix == <<"/", "s", "t", "a", "t", "u", "s">>

\* regex!("^wifielement/([0-9A-F:]+)/status$").captures(&packet.topic), [1]
TopicDeviceAnySuffix(topic) ==
    LET head == Len(WifiElement)
        mid == SubSeq(topic, head + 1, Len(topic) - Len(StatusSuffix))
    IN  IF /\ Len(topic) > head + Len(StatusSuffix)
           /\ SubSeq(topic, 1, head) = WifiElement
           /\ \A i \in 1..Len(mid) : mid[i] \in MacChars
        THEN Some(mid)
        ELSE NoneV
TopicDevice(topic) ==
    LET head == Len(WifiElement)
        tail == Len(StatusSuffix)
        mid == SubSeq(topic, head + 1, Len(topic) - tail)
    IN  IF /\ Len(topic) > head + tail
           /\ SubSeq(topic, 1, head) = WifiElement
           /\ SubSeq(topic, Len(topic) - tail + 1, Len(topic)) = StatusSuffix
           /\ \A i \in 1..Len(mid) : mid[i] \in MacChars
        THEN Some(mid)
        ELSE NoneV

\* A payload is a JSON text: an array of items, another JSON value, or no
\* JSON at all.  An item is an object that has or lacks a string "type" and a
\* string "value".
Item(name, value) == [type |-> name, value |-> value]

\* serde_json::from_slice::<Vec<AttributesChangedPayload>>(&packet.payload)
ParsedSkippingBad(payload) ==
    LET good == SelectSeq(payload.items, LAMBDA it : IsSome(it.type) /\ IsSome(it.value))
    IN  Some([i \in 1..Len(good) |-> <<Unwrap(good[i].type), Unwrap(good[i].value)>>])
Parsed(payload) ==
    IF /\ payload.shape = "array"
       /\ \A i \in 1..Len(payload.items) :
             IsSome(payload.items[i].type) /\ IsSome(payload.items[i].value)
    THEN Some([i \in 1..Len(payload.items) |->
                 <<Unwrap(payload.items[i].type), Unwrap(payload.items[i].value)>>])
    ELSE NoneV

PublishPacket(topic, payload) == [kind |-> "Publish", topic |-> topic, payload |-> payload]

\* An inbound packet that is not a publish: Disconnect, PingResp, SubAck, ..
ControlPacket(kind) ==
    [kind |-> kind, topic |-> <<>>, payload |-> [shape |-> "none", items |-> <<>>]]

\* What one iteration of the loop of poll does with an inbound packet.
PollArm(packet) ==
    IF packet.kind = "Publish"
    THEN IF ~IsSome(TopicDevice(packet.topic)) THEN "continue"
         ELSE IF ~IsSome(Parsed(packet.payload)) THEN "panic"
         ELSE "event"
    ELSE IF packet.kind = "Disconnect" THEN "Disconnected"
    ELSE "continue"

\* The network delivers a packet to the event loop of a connection that holds
\* fewer than room packets not yet taken.  The broker closes the connection
\* after a Disconnect, so nothing follows one.
BrokerSendsUpTo(c, packet, room) ==
    /\ conns[c].net = "up"
    /\ conns[c].holder # "dropped"
    /\ Len(inbox[c]) < room
    /\ \A i \in 1..Len(inbox[c]) : inbox[c][i].kind # "Disconnect"
    /\ inbox' = [inbox EXCEPT ![c] = Append(@, packet)]
    /\ UNCHANGED <<disconnected, polled>>
    /\ UNCHANGED clientVars

BrokerSends(c, packet) == BrokerSendsUpTo(c, packet, MaxInbox)

\* self.events.poll() hands over the packets of a connection in the order the
\* network delivered them.
NewestIncoming(q) == q[Len(q)]
NextIncoming(q) == Head(q)

\* One iteration of the loop of EventHandler::poll on an inbound packet.
\* task: the handler is owned by a task whose loop ends when poll returns Err
\* (the pump); otherwise the caller keeps the handler.  A panic unwinds the
\* polling task, which drops the handler.
PollIncoming(c, task) ==
    /\ conns[c].holder = "caller"
    /\ conns[c].net = "up"
    /\ inbox[c] # <<>>
    /\ LET packet == NextIncoming(inbox[c])
           arm == PollArm(packet)
       IN  /\ inbox' = [inbox EXCEPT ![c] = Tail(@)]
           /\ polled' =
                IF arm = "continue" THEN polled
                ELSE [conn |-> c, result |-> arm,
                      device |-> IF arm = "event"
                                 THEN Unwrap(TopicDevice(packet.topic)) ELSE <<>>,
                      attributes |-> IF arm = "event"
                                     THEN Unwrap(Parsed(packet.payload)) ELSE <<>>,
                      packet |-> packet, after |-> disconnected[c]]
           /\ disconnected' = IF arm = "Disconnected"
                              THEN [disconnected EXCEPT ![c] = TRUE]
                              ELSE disconnected
           /\ conns' = [conns EXCEPT
                          ![c].net = IF arm = "Disconnected" THEN "down" ELSE @,
                          ![c].holder = IF arm = "panic" \/ (arm = "Disconnected" /\ task)
                                        THEN "dropped" ELSE @]
           /\ subscribed' = Cleared(subscribed, conns')
           /\ shadowSubscribed' = Cleared(shadowSubscribed, conns')
    /\ UNCHANGED <<skip_server_check, preferred_qos, session, state, clientPc,
                   loginOk, nextConn, now, clockEpoch, pubLog, bulk, closing, last>>

\* Err(_) => return Err(Error::Disconnected): the event loop has no network.
PollError(c, task) ==
    /\ conns[c].holder = "caller"
    /\ conns[c].net = "down"
    /\ ~disconnected[c] \/ task
    /\ polled' = [conn |-> c, result |-> "Disconnected", device |-> <<>>,
                  attributes |-> <<>>, packet |-> NoPacket, after |-> disconnected[c]]
    /\ disconnected' = [disconnected EXCEPT ![c] = TRUE]
    /\ conns' = [conns EXCEPT ![c].holder = IF task THEN "dropped" ELSE @]
    /\ UNCHANGED inbox
    /\ UNCHANGED <<skip_server_check, preferred_qos, session, state, clientPc,
                   loginOk, nextConn, subscribed, shadowSubscribed, now,
                   clockEpoch, pubLog, bulk, closing, last>>

\* What self.events.poll() does when it is called again after it has failed:
\* it fails again, or the event loop connects anew (rumqttc keeps its options
\* and opens a connection whenever it is polled without one).
PollAgainOutcomes == {"fails", "reconnects"}

\* A caller that kept the handler polls again after Disconnected.
PollAgain(c) ==
    /\ conns[c].holder = "caller"
    /\ conns[c].net = "down"
    /\ disconnected[c]
    /\ \E outcome \in PollAgainOutcomes :
          IF outcome = "reconnects"
          THEN /\ conns' = [conns EXCEPT ![c].net = "up"]
               /\ inbox' = [inbox EXCEPT ![c] = <<ControlPacket("ConnAck")>>]
               /\ polled' = polled
          ELSE /\ conns' = conns
               /\ inbox' = inbox
               /\ polled' = [conn |-> c, result |-> "Disconnected", device |-> <<>>,
                             attributes |-> <<>>, packet |-> NoPacket, after |-> TRUE]
    /\ UNCHANGED disconnected
    /\ UNCHANGED <<skip_server_check, preferred_qos, session, state, clientPc,
                   loginOk, nextConn, subscribed, shadowSubscribed, now,
                   clockEpoch, pubLog, bulk, closing, last>>

\* The task of spawn_listener takes an inbound packet from self.events.poll()
\* and ignores it: any Ok(_) keeps its loop going.
ListenerIncoming(c) ==
    /\ conns[c].holder = "listener"
    /\ conns[c].net = "up"
    /\ inbox[c] # <<>>
    /\ inbox' = [inbox EXCEPT ![c] = Tail(@)]
    /\ conns' = [conns EXCEPT
                   ![c].net = IF NextIncoming(inbox[c]).kind = "Disconnect" THEN "down" ELSE @]
    /\ subscribed' = Cleared(subscribed, conns')
    /\ shadowSubscribed' = Cleared(shadowSubscribed, conns')
    /\ UNCHANGED <<disconnected, polled>>
    /\ UNCHANGED <<skip_server_check, preferred_qos, session, state, clientPc,
                   loginOk, nextConn, now, clockEpoch, pubLog, bulk, closing, last>>

----------------------------------------------------------------------------
(* The wall clock *)

ClockAdvance ==
    /\ now < MaxClock
    /\ now' = now + 1
    /\ UNCHANGED <<skip_server_check, preferred_qos, session, state, clientPc,
                   loginOk, conns, nextConn, subscribed, shadowSubscribed,
                   clockEpoch, pubLog, bulk, closing, last>>

\* The system time is set back (SystemTime is not monotonic).
ClockSetBack ==
    /\ clockEpoch < MaxStepBacks
    /\ now > 0
    /\ \E t \in 0..(now - 1) : now' = t
    /\ clockEpoch' = clockEpoch + 1
    /\ UNCHANGED <<skip_server_check, preferred_qos, session, state, clientPc,
                   loginOk, conns, nextConn, subscribed, shadowSubscribed,
                   pubLog, bulk, closing, last>>

----------------------------------------------------------------------------
(* Client::wifi_devices, Client::get_wifi_devices_and_subscribe *)

RestErrors == {"ReqwestError", "SerializationError"}
RestResults == {"ok"} \cup RestErrors

\* assert!(self.state.is_some(), "not logged in")
StateAssertMissing == TRUE
StateIsSome == IsSome(state)

\* SubscribeFilter { path: format!("wifielement/{}/status", ..), qos: QoS::AtMostOnce }
StatusFilter(mac) == [path |-> StatusTopic(mac), qos |-> "AtMostOnce"]

\* subscribe(topic, qos): a SUBSCRIBE with one filter
SingleFilters(mac) == <<StatusFilter(mac)>>

\* subscribe_many(devices.iter().map(..)): a SUBSCRIBE with one filter per device
ManyFilters(macs) == [i \in 1..Len(macs) |-> StatusFilter(macs[i])]

\* singles: the filter lists of the subscribe_device calls, one per device,
\* that the shadow broker state receives in place of this request.
SubscribeRequest(filters, singles) ==
    [type |-> "Subscribe", topic |-> <<>>, qos |-> "AtMostOnce", retain |-> FALSE,
     payload |-> [kind |-> "none", records |-> <<>>],
     filters |-> filters, singles |-> singles]

PublishRequest(topic, qos, payload) ==
    [type |-> "Publish", topic |-> topic, qos |-> qos, retain |-> FALSE,
     payload |-> payload, filters |-> <<>>, singles |-> <<>>]

DisconnectRequest ==
    [type |-> "Disconnect", topic |-> <<>>, qos |-> "AtMostOnce", retain |-> FALSE,
     payload |-> [kind |-> "none", records |-> <<>>],
     filters |-> <<>>, singles |-> <<>>]

WifiDevices(resp) ==
    /\ Shared
    /\ IF ~StateIsSome
       THEN last' = Panic("wifi_devices")
       ELSE last' = Outcome("wifi_devices", resp, 1, 0, 0, NoRequest, "none")
    /\ UNCHANGED <<skip_server_check, preferred_qos, session, state, clientPc,
                   loginOk, conns, nextConn, subscribed, shadowSubscribed, now,
                   clockEpoch, pubLog, bulk, closing>>

\* The tail of subscribe_device / subscribe_devices: put req on the channel of
\* self.state.as_ref().unwrap().mqtt.
\* room: the requests the caller lets wait on the channel.
SendSubscribeUpTo(op, req, rest, room) ==
    LET c == Unwrap(state).mqtt
    IN  IF ChannelClosed(c)
        THEN /\ last' = Outcome(op, "MqttClientError", rest, 0, 0, NoRequest, "none")
             /\ UNCHANGED conns
        ELSE /\ HasRoom(c)
             /\ Len(conns[c].queue) < room
             /\ conns' = Enqueued(c, req)
             /\ last' = Outcome(op, "ok", rest, 1, 0, req, "none")

SendSubscribe(op, req, rest) == SendSubscribeUpTo(op, req, rest, MaxQueue)

Orders(n) == {p \in [1..n -> 1..n] : \A i, j \in 1..n : p[i] = p[j] => i = j}

\* devices: the deviceList of the REST response
GetWifiDevicesAndSubscribe(resp, devices) ==
    /\ Shared
    /\ IF ~StateIsSome
       THEN /\ last' = Panic("get_wifi_devices_and_subscribe")
            /\ UNCHANGED conns
       ELSE IF resp # "ok"
       THEN /\ last' = Outcome("get_wifi_devices_and_subscribe", resp, 1, 0, 0,
                               NoRequest, "none")
            /\ UNCHANGED conns
       ELSE IF ~IsSome(state)
       THEN /\ last' = Outcome("get_wifi_devices_and_subscribe", "panic", 1, 0, 0,
                               NoRequest, "none")
            /\ UNCHANGED conns
       ELSE LET macs == [i \in 1..Len(devices) |-> DeviceMac(devices[i])]
            IN  SendSubscribe("get_wifi_devices_and_subscribe",
                    SubscribeRequest(ManyFilters(macs),
                        [i \in 1..Len(macs) |-> SingleFilters(macs[i])]), 1)
    /\ UNCHANGED <<skip_server_check, preferred_qos, session, state, clientPc,
                   loginOk, nextConn, subscribed, shadowSubscribed, now,
                   clockEpoch, pubLog, bulk, closing>>

(* Client::subscribe_device, Client::subscribe_devices *)

SubscribeDeviceUpTo(mac, room) ==
    /\ Shared
    /\ IF ~StateIsSome \/ ~IsSome(state)
       THEN /\ last' = Panic("subscribe_device")
            /\ UNCHANGED conns
       ELSE SendSubscribeUpTo("subscribe_device",
                SubscribeRequest(SingleFilters(mac), <<SingleFilters(mac)>>), 0, room)
    /\ UNCHANGED <<skip_server_check, preferred_qos, session, state, clientPc,
                   loginOk, nextConn, subscribed, shadowSubscribed, now,
                   clockEpoch, pubLog, bulk, closing>>

SubscribeDevice(mac) == SubscribeDeviceUpTo(mac, MaxQueue)

SubscribeDevices(macs) ==
    /\ Shared
    /\ IF ~StateIsSome \/ ~IsSome(state)
       THEN /\ last' = Panic("subscribe_devices")
            /\ UNCHANGED conns
       ELSE \E p \in Orders(Len(macs)) :
              SendSubscribe("subscribe_devices",
                  SubscribeRequest(ManyFilters(macs),
                      [i \in 1..Len(macs) |-> SingleFilters(macs[p[i]])]), 0)
    /\ UNCHANGED <<skip_server_check, preferred_qos, session, state, clientPc,
                   loginOk, nextConn, subscribed, shadowSubscribed, now,
                   clockEpoch, pubLog, bulk, closing>>

----------------------------------------------------------------------------
(* Client::set_device_attribute, Client::set_device_attributes *)

AttrKeys == {"switch", "brightness"}
AttrValues == {"0", "1"}

\* json!({ "dn": .., "type": .., "value": .., "time": .. })
AttributeRecord(mac, key, value, clock) ==
    [dn |-> mac, type |-> key, value |-> value, time |-> TimestampMillis(clock)]

Stamp(rec) == [time |-> rec.time, read |-> now, epoch |-> clockEpoch]

\* pubLog keeps the stamps of the last MaxLog records.
Logged(log, rec) ==
    Append(IF Len(log) < MaxLog THEN log ELSE Tail(log), Stamp(rec))

\* The tail of set_device_attribute / set_device_attributes: put req on the
\* channel of self.state.as_ref().unwrap().mqtt.
\* room: the requests the caller lets wait on the channel.
SendPublishUpTo(op, req, room) ==
    LET c == Unwrap(state).mqtt
    IN  IF ChannelClosed(c)
        THEN /\ last' = Outcome(op, "MqttClientError", 0, 0, 0, NoRequest, "none")
             /\ UNCHANGED conns
        ELSE /\ HasRoom(c)
             /\ Len(conns[c].queue) < room
             /\ conns' = Enqueued(c, req)
             /\ last' = Outcome(op, "ok", 0, 0, 1, req, "none")

SendPublish(op, req) == SendPublishUpTo(op, req, MaxQueue)

SetDeviceAttributeUpTo(mac, key, value, room) ==
    /\ Shared
    /\ IF ~StateIsSome \/ ~IsSome(state)
       THEN /\ last' = Panic("set_device_attribute")
            /\ UNCHANGED <<conns, pubLog>>
       ELSE LET rec == AttributeRecord(mac, key, value, now)
            IN  /\ pubLog' = Logged(pubLog, rec)
                /\ SendPublishUpTo("set_device_attribute",
                       PublishRequest(UpdateTopic(mac), preferred_qos,
                                      [kind |-> "object", records |-> <<rec>>]), room)
    /\ UNCHANGED <<skip_server_check, preferred_qos, session, state, clientPc,
                   loginOk, nextConn, subscribed, shadowSubscribed, now,
                   clockEpoch, bulk, closing>>

SetDeviceAttribute(mac, key, value) == SetDeviceAttributeUpTo(mac, key, value, MaxQueue)

\* set_device_attributes up to its loop: the assertion and let mut body = vec![]
BulkStart(mac, attributes) ==
    /\ Shared
    /\ bulk = NoneV
    /\ IF ~StateIsSome
       THEN /\ last' = Panic("set_device_attributes")
            /\ bulk' = bulk
       ELSE /\ bulk' = Some([mac |-> mac, input |-> attributes,
                              todo |-> attributes, body |-> <<>>])
            /\ last' = last
    /\ UNCHANGED <<skip_server_check, preferred_qos, session, state, clientPc,
                   loginOk, conns, nextConn, subscribed, shadowSubscribed, now,
                   clockEpoch, pubLog, closing>>

\* One iteration of for (key, value) in attributes.iter() { body.push(..) }
BulkPushFront ==
    /\ IsSome(bulk)
    /\ Unwrap(bulk).todo # <<>>
    /\ LET b == Unwrap(bulk)
           rec == AttributeRecord(b.mac, Head(b.todo)[1], Head(b.todo)[2], now)
       IN  /\ bulk' = Some([b EXCEPT !.todo = Tail(@), !.body = <<rec>> \o @])
           /\ pubLog' = Logged(pubLog, rec)
    /\ UNCHANGED <<skip_server_check, preferred_qos, session, state, clientPc,
                   loginOk, conns, nextConn, subscribed, shadowSubscribed, now,
                   clockEpoch, closing, last>>

BulkPush ==
    /\ IsSome(bulk)
    /\ Unwrap(bulk).todo # <<>>
    /\ LET b == Unwrap(bulk)
           rec == AttributeRecord(b.mac, Head(b.todo)[1], Head(b.todo)[2], now)
       IN  /\ bulk' = Some([b EXCEPT !.todo = Tail(@), !.body = Append(@, rec)])
           /\ pubLog' = Logged(pubLog, rec)
    /\ UNCHANGED <<skip_server_check, preferred_qos, session, state, clientPc,
                   loginOk, conns, nextConn, subscribed, shadowSubscribed, now,
                   clockEpoch, closing, last>>

\* set_device_attributes after its loop: one publish of the whole array
BulkSend ==
    /\ IsSome(bulk)
    /\ Unwrap(bulk).todo = <<>>
    /\ bulk' = NoneV
    /\ IF ~IsSome(state)
       THEN /\ last' = Panic("set_device_attributes")
            /\ UNCHANGED conns
       ELSE SendPublish("set_device_attributes",
                PublishRequest(UpdateTopic(Unwrap(bulk).mac), preferred_qos,
                               [kind |-> "array", records |-> Unwrap(bulk).body]))
    /\ UNCHANGED <<skip_server_check, preferred_qos, session, state, clientPc,
                   loginOk, nextConn, subscribed, shadowSubscribed, now,
                   clockEpoch, pubLog, closing>>

----------------------------------------------------------------------------
(* Client::close *)

\* self.state.take()
TakenState == NoneV

\* close(mut self): the client is consumed, so its session is dropped when
\* close returns.
DroppedSessionKept == session
DroppedSession == NoneV

CloseBegin ==
    /\ Exclusive
    /\ IF ~IsSome(state)
       THEN /\ clientPc' = "closed"
            /\ session' = DroppedSession
            /\ last' = Outcome("close", "ok", 0, 0, 0, NoRequest, "none")
            /\ UNCHANGED <<state, conns, closing>>
       ELSE LET st == Unwrap(state)
                c == st.mqtt
            IN  /\ closing' = Some(st)
                /\ state' = TakenState
                /\ IF ChannelClosed(c)
                   THEN /\ clientPc' = "closed"
                        /\ session' = DroppedSession
                        /\ last' = Outcome("close", "MqttClientError", 0, 0, 0,
                                           NoRequest, "none")
                        /\ UNCHANGED conns
                   ELSE /\ HasRoom(c)
                        /\ conns' = Enqueued(c, DisconnectRequest)
                        /\ IF IsSome(st.listener_handle)
                           THEN /\ clientPc' = "joining"
                                /\ session' = session
                                /\ last' = Outcome("close", "joining", 0, 0, 0,
                                                   DisconnectRequest, "none")
                           ELSE /\ clientPc' = "closed"
                                /\ session' = DroppedSession
                                /\ last' = Outcome("close", "ok", 0, 0, 0,
                                                   DisconnectRequest, "none")
    /\ UNCHANGED <<skip_server_check, preferred_qos, loginOk, nextConn,
                   subscribed, shadowSubscribed, now, clockEpoch, pubLog, bulk>>

\* let _ = listener_handle.await; returns once the listener task has ended
CloseJoinDetached ==
    /\ clientPc = "joining"
    /\ clientPc' = "closed"
    /\ session' = DroppedSession
    /\ last' = [last EXCEPT !.result = "ok"]
    /\ UNCHANGED <<skip_server_check, preferred_qos, state, loginOk, conns,
                   nextConn, subscribed, shadowSubscribed, now, clockEpoch,
                   pubLog, bulk, closing>>
CloseJoin ==
    /\ clientPc = "joining"
    /\ conns[Unwrap(Unwrap(closing).listener_handle)].holder # "listener"
    /\ clientPc' = "closed"
    /\ session' = DroppedSession
    /\ last' = [last EXCEPT !.result = "ok"]
    /\ UNCHANGED <<skip_server_check, preferred_qos, state, loginOk, conns,
                   nextConn, subscribed, shadowSubscribed, now, clockEpoch,
                   pubLog, bulk, closing>>

----------------------------------------------------------------------------
(* The client driven by an arbitrary caller *)

RECURSIVE SeqsUpTo(_, _)
SeqsUpTo(S, n) ==
    IF n = 0 THEN {<<>>}
    ELSE LET shorter == SeqsUpTo(S, n - 1)
         IN  shorter \cup {Append(q, x) : q \in shorter, x \in S}

MacLists == SeqsUpTo(DeviceIds, MaxList)
AttrLists == SeqsUpTo(AttrKeys \X AttrValues, MaxAttrs)

\* The inputs of the lifecycle specification: one device, one attribute.
LifeMac == <<"A", "1">>
LifeMacLists == {<<LifeMac>>}
LifeAttrLists == {<<<<"switch", "1">>>>}
LifeDeviceLists ==
    {<<[category |-> "wifielement", mac |-> LifeMac, type_code |-> "bulb",
        attributes |-> [k \in {"switch"} |-> "0"]]>>}

LifeTokens == {"t1"}
LifeLoginResponses == LifeTokens \cup {"ReqwestError"}
LifeRestResults == {"ok", "ReqwestError"}
LifeFirstEvents == {"ConnAckSuccess", "ConnAckRefused"}

DoSetSession == (\E v \in LifeTokens : SetSession(v)) /\ UNCHANGED otherVars
DoLogin == (\E r \in LifeLoginResponses : Login(r)) /\ UNCHANGED otherVars
DoStart ==
    (\E d \in LifeRestResults, f \in LifeFirstEvents : Start(d, f, MaxLifeConns))
    /\ UNCHANGED otherVars
DoSpawnListener == (\E c \in ConnIds : SpawnListener(c)) /\ UNCHANGED otherVars
DoListenerPoll == (\E c \in ConnIds : ListenerPoll(c)) /\ UNCHANGED otherVars
DoHandlerPoll == (\E c \in ConnIds : HandlerPoll(c)) /\ UNCHANGED otherVars
DoWifiDevices == (\E r \in LifeRestResults : WifiDevices(r)) /\ UNCHANGED otherVars
DoGetWifiDevicesAndSubscribe ==
    (\E r \in LifeRestResults, ds \in LifeDeviceLists : GetWifiDevicesAndSubscribe(r, ds))
    /\ UNCHANGED otherVars
DoSubscribeDevice == SubscribeDevice(LifeMac) /\ UNCHANGED otherVars
DoSubscribeDevices ==
    (\E ms \in LifeMacLists : SubscribeDevices(ms)) /\ UNCHANGED otherVars
DoSetDeviceAttribute == SetDeviceAttribute(LifeMac, "switch", "1") /\ UNCHANGED otherVars
DoBulkStart == (\E as \in LifeAttrLists : BulkStart(LifeMac, as)) /\ UNCHANGED otherVars
DoBulkPush == BulkPush /\ UNCHANGED otherVars
DoBulkSend == BulkSend /\ UNCHANGED otherVars
DoCloseBegin == CloseBegin /\ UNCHANGED otherVars
DoCloseJoin == CloseJoin /\ UNCHANGED otherVars

\* Every operation of the client, on one token and one device.
Next ==
    \/ DoSetSession
    \/ DoLogin
    \/ DoStart
    \/ DoSpawnListener
    \/ DoListenerPoll
    \/ DoHandlerPoll
    \/ DoWifiDevices
    \/ DoGetWifiDevicesAndSubscribe
    \/ DoSubscribeDevice
    \/ DoSubscribeDevices
    \/ DoSetDeviceAttribute
    \/ DoBulkStart
    \/ DoBulkPush
    \/ DoBulkSend
    \/ DoCloseBegin
    \/ DoCloseJoin

Spec == Init /\ [][Next]_vars

\* The operations that create, hand over and end connections, on two tokens.
ConnSetSession == (\E v \in Tokens : SetSession(v)) /\ UNCHANGED otherVars
ConnLogin == (\E r \in LoginResponses : Login(r)) /\ UNCHANGED otherVars
ConnWithSkipServerCheck == WithSkipServerCheck /\ UNCHANGED otherVars
ConnStart ==
    (\E d \in DiscoveryResults, f \in FirstEvents : Start(d, f, MaxConns))
    /\ UNCHANGED otherVars
ConnSpawnListener == (\E c \in ConnIds : SpawnListener(c)) /\ UNCHANGED otherVars
ConnListenerPoll == (\E c \in ConnIds : ListenerPoll(c)) /\ UNCHANGED otherVars
ConnTransportError == (\E c \in ConnIds : TransportError(c)) /\ UNCHANGED otherVars
ConnCloseBegin == CloseBegin /\ UNCHANGED otherVars
ConnCloseJoin == CloseJoin /\ UNCHANGED otherVars

NextConnections ==
    \/ ConnSetSession
    \/ ConnLogin
    \/ ConnWithSkipServerCheck
    \/ ConnStart
    \/ ConnSpawnListener
    \/ ConnListenerPoll
    \/ ConnTransportError
    \/ ConnCloseBegin
    \/ ConnCloseJoin

SpecConn == Init /\ [][NextConnections]_vars

\* Publishing while the wall clock moves.
\* One caller: it sets the session once and makes its publish calls in turn.
PubSetSession ==
    /\ ~IsSome(session)
    /\ \E v \in LifeTokens : SetSession(v)
    /\ UNCHANGED otherVars
PubStart == Start("ok", "ConnAckSuccess", MaxLifeConns) /\ UNCHANGED otherVars
\* The runs stop building records once pubLog holds MaxLog of them.
PubSetDeviceAttribute ==
    /\ Len(pubLog) < MaxLog
    /\ bulk = NoneV
    /\ SetDeviceAttribute(LifeMac, "switch", "1")
    /\ UNCHANGED otherVars
PubBulkStart ==
    /\ \E as \in SeqsUpTo({<<"switch", "1">>}, MaxAttrs) :
          /\ Len(pubLog) + Len(as) <= MaxLog
          /\ BulkStart(LifeMac, as)
    /\ UNCHANGED otherVars
PubBulkPush == Len(pubLog) < MaxLog /\ BulkPush /\ UNCHANGED otherVars
PubBulkSend == BulkSend /\ UNCHANGED otherVars
PubHandlerPoll == (\E c \in ConnIds : HandlerPoll(c)) /\ UNCHANGED otherVars
PubClockAdvance == ClockAdvance /\ UNCHANGED otherVars
PubClockSetBack == ClockSetBack /\ UNCHANGED otherVars

NextPublish ==
    \/ PubSetSession
    \/ PubStart
    \/ PubSetDeviceAttribute
    \/ PubBulkStart
    \/ PubBulkPush
    \/ PubBulkSend
    \/ PubHandlerPoll
    \/ PubClockAdvance
    \/ PubClockSetBack

SpecPublish == Init /\ [][NextPublish]_vars

\* Subscribing to every list of devices, one by one and in bulk.
SubWithPreferredQos == (\E q \in QoSLevels : WithPreferredQos(q)) /\ UNCHANGED otherVars
SubSetSession == (\E v \in LifeTokens : SetSession(v)) /\ UNCHANGED otherVars
SubStart == Start("ok", "ConnAckSuccess", MaxLifeConns) /\ UNCHANGED otherVars
SubSubscribeDevice == (\E m \in DeviceIds : SubscribeDevice(m)) /\ UNCHANGED otherVars
SubSubscribeDevices == (\E ms \in MacLists : SubscribeDevices(ms)) /\ UNCHANGED otherVars
SubSpawnListener == (\E c \in ConnIds : SpawnListener(c)) /\ UNCHANGED otherVars
SubListenerPoll == (\E c \in ConnIds : ListenerPoll(c)) /\ UNCHANGED otherVars
SubHandlerPoll == (\E c \in ConnIds : HandlerPoll(c)) /\ UNCHANGED otherVars

NextSubscribe ==
    \/ SubWithPreferredQos
    \/ SubSetSession
    \/ SubStart
    \/ SubSubscribeDevice
    \/ SubSubscribeDevices
    \/ SubSpawnListener
    \/ SubListenerPoll
    \/ SubHandlerPoll

SpecSubscribe == Init /\ [][NextSubscribe]_vars

\* A consumer that keeps the EventHandler and polls it, beside a listener.
LowerMac == <<"a", "1">>

GoodItems == {Item(Some("switch"), Some("1")), Item(Some("brightness"), Some("9"))}
BadItems == {Item(Some("switch"), NoneV)}

ArrayPayload(items) == [shape |-> "array", items |-> items]

\* Payloads that parse, and payloads that do not: an array with an item that
\* lacks its value, a JSON object, and bytes that are not JSON.
GoodPayloads == {ArrayPayload(<<>>)} \cup {ArrayPayload(<<it>>) : it \in GoodItems}
MalformedPayloads ==
    {ArrayPayload(<<it>>) : it \in BadItems}
        \cup {[shape |-> "object", items |-> <<>>], [shape |-> "text", items |-> <<>>]}

InboundTopics == {StatusTopic(LifeMac), UpdateTopic(LifeMac), StatusTopic(LowerMac)}

InboundPackets ==
    {PublishPacket(t, pl) : t \in InboundTopics, pl \in GoodPayloads \cup MalformedPayloads}
        \cup {ControlPacket(k) : k \in {"Disconnect", "PingResp", "SubAck"}}

InSetSession ==
    /\ ~IsSome(session)
    /\ \E v \in LifeTokens : SetSession(v)
    /\ UNCHANGED otherVars
\* The consumer starts the client once.
InStart ==
    /\ ~IsSome(state)
    /\ Start("ok", "ConnAckSuccess", MaxLifeConns)
    /\ UNCHANGED otherVars
InSpawnListener == (\E c \in ConnIds : SpawnListener(c)) /\ UNCHANGED otherVars
InSubscribeDevice == SubscribeDevice(LifeMac) /\ UNCHANGED otherVars
InHandlerPoll == (\E c \in ConnIds : HandlerPoll(c)) /\ UNCHANGED otherVars
InListenerPoll == (\E c \in ConnIds : ListenerPoll(c)) /\ UNCHANGED otherVars
InTransportError == (\E c \in ConnIds : TransportError(c)) /\ UNCHANGED otherVars

\* The broker forwards the status message of a device only to a connection
\* subscribed to it; the other packets stand for whatever else may arrive.
InBrokerSends ==
    /\ \E c \in ConnIds, packet \in InboundPackets :
          /\ (packet.kind = "Publish" /\ packet.topic = StatusTopic(LifeMac))
                => packet.topic \in subscribed[c]
          /\ BrokerSends(c, packet)
    /\ UNCHANGED <<serverVars, taskVars>>

InPollIncoming ==
    /\ \E c \in ConnIds : PollIncoming(c, FALSE)
    /\ UNCHANGED <<serverVars, taskVars>>

InPollError ==
    /\ \E c \in ConnIds : PollError(c, FALSE)
    /\ UNCHANGED <<serverVars, taskVars>>

InPollAgain ==
    /\ \E c \in ConnIds : PollAgain(c)
    /\ UNCHANGED <<serverVars, taskVars>>

InListenerIncoming ==
    /\ \E c \in ConnIds : ListenerIncoming(c)
    /\ UNCHANGED <<serverVars, taskVars>>

NextInbound ==
    \/ InSetSession
    \/ InStart
    \/ InSpawnListener
    \/ InSubscribeDevice
    \/ InHandlerPoll
    \/ InListenerPoll
    \/ InTransportError
    \/ InBrokerSends
    \/ InPollIncoming
    \/ InPollError
    \/ InPollAgain
    \/ InListenerIncoming

SpecInbound == Init /\ [][NextInbound]_vars

----------------------------------------------------------------------------
(* The server: main (sengled-server/src/main.rs) and the toggle route       *)
(* (sengled-server/src/routes.rs)                                           *)

SwitchValues == {"0", "1"}

\* The attribute maps a snapshot can carry for a device.
AttrMaps == UNION {[S -> SwitchValues] : S \in SUBSET {"switch"}}

SnapshotDevices ==
    {[category |-> "wifielement", mac |-> m, type_code |-> "bulb", attributes |-> a] :
        m \in DeviceIds, a \in AttrMaps}

\* The deviceList values of the REST response: each device at most once.
Snapshots ==
    {ds \in SeqsUpTo(SnapshotDevices, Cardinality(DeviceIds)) :
        \A i, j \in 1..Len(ds) : ds[i].mac = ds[j].mac => i = j}

\* The ids a request path can name: the devices and one unknown id.
PathIds == DeviceIds \cup {<<"C", "3">>}

\* sengled::Client::new(..).with_skip_server_check().with_preferred_qos(AtMostOnce)
InitServer ==
    /\ ClientNew
    /\ skip_server_check = TRUE
    /\ cache = <<>>
    /\ serverPc = "boot"
    /\ response = [route |-> "none", id |-> <<>>, status |-> 0, value |-> "",
                   cached |-> NoneV, found |-> FALSE, pubs |-> 0, req |-> NoRequest, body |-> {}]
    /\ InboundQuiet
    /\ PumpNotSpawned

\* if let Some(session) = session { client.set_session(session) }
ServerSetSession ==
    /\ serverPc = "boot"
    /\ \E v \in LifeTokens : SetSession(v)
    /\ serverPc' = "authed"
    /\ UNCHANGED <<cache, response, inboundVars, taskVars>>

\* else { client.login().await.expect("failed to login") }
ServerLogin ==
    /\ serverPc = "boot"
    /\ \E r \in LifeLoginResponses : Login(r)
    /\ serverPc' = IF last'.result = "ok" THEN "authed" ELSE "exited"
    /\ UNCHANGED <<cache, response, inboundVars, taskVars>>

\* client.start().await.expect("failed to start client")
ServerStart ==
    /\ serverPc = "authed"
    /\ \E f \in LifeFirstEvents : Start("ok", f, MaxLifeConns)
    /\ serverPc' = IF last'.result = "ok" THEN "started" ELSE "exited"
    /\ UNCHANGED <<cache, response, inboundVars, taskVars>>

\* for device in ..unwrap() { state.devices.insert(device.mac.to_owned(), device) }
RECURSIVE InsertedButLast(_, _)
InsertedButLast(map, devices) ==
    IF Len(devices) <= 1 THEN map
    ELSE LET d == Head(devices)
         IN  InsertedButLast([m \in DOMAIN map \cup {d.mac} |-> IF m = d.mac THEN d ELSE map[m]],
                             Tail(devices))
RECURSIVE Inserted(_, _)
Inserted(map, devices) ==
    IF devices = <<>> THEN map
    ELSE LET d == Head(devices)
         IN  Inserted([m \in DOMAIN map \cup {d.mac} |-> IF m = d.mac THEN d ELSE map[m]],
                      Tail(devices))

Snapshot(r, ds) ==
    /\ serverPc = "started"
    /\ GetWifiDevicesAndSubscribe(r, ds)
    /\ IF last'.result = "ok"
       THEN cache' = Inserted(cache, ds) /\ serverPc' = "cached"
       ELSE cache' = cache /\ serverPc' = "exited"
    /\ snapshot' = cache'
    /\ UNCHANGED <<response, inboundVars, pump, applied, setCall, world, refs>>

ServerSnapshot ==
    /\ serverPc = "started"
    /\ \E r \in LifeRestResults, ds \in Snapshots : Snapshot(r, ds)

\* tokio::spawn(pump); axum::serve(..)
ServerServe ==
    /\ serverPc = "cached"
    /\ serverPc' = "serving"
    /\ pump' = [pump EXCEPT !.pc = "polling"]
    /\ UNCHANGED clientVars
    /\ UNCHANGED <<cache, response, inboundVars, snapshot, applied, setCall, world, refs>>

\* The pump task, while let Ok(event) = event_handler.poll().await: an
\* iteration of poll that hands a request to the network.
ServerPump ==
    /\ serverPc = "serving"
    /\ pump.pc = "polling"
    /\ \E c \in ConnIds : HandlerPoll(c)
    /\ UNCHANGED otherVars

\* A panic of the pump task unwinds that task alone (tokio::spawn); the
\* cache, shared through the Arc, stays as it is.
AfterProcessAbort(map) == <<>>
AfterTaskPanic(map) == map

\* The pump task: an iteration of poll on an inbound packet.  An event that
\* poll returns is the one the loop body then applies, pair by pair.
ServerPumpPoll ==
    /\ serverPc = "serving"
    /\ pump.pc = "polling"
    /\ \E c \in ConnIds :
          /\ PollIncoming(c, TRUE)
          /\ LET arm == PollArm(NextIncoming(inbox[c]))
             IN  /\ pump' =
                      IF arm = "event"
                      THEN IF polled'.attributes = <<>>
                           THEN [pc |-> "polling", device |-> <<>>, todo |-> <<>>]
                           ELSE [pc |-> "applying", device |-> polled'.device,
                                 todo |-> polled'.attributes]
                      ELSE IF arm = "Disconnected"
                      THEN [pc |-> "ended", device |-> <<>>, todo |-> <<>>]
                      ELSE IF arm = "panic"
                      THEN [pc |-> "panicked", device |-> <<>>, todo |-> <<>>]
                      ELSE pump
                 /\ cache' = IF arm = "panic" THEN AfterTaskPanic(cache) ELSE cache
    /\ UNCHANGED <<serverPc, response, snapshot, applied, setCall, world, refs>>

\* match devices.get_mut(&device) { Some(device) => device, None => continue };
\* device.attributes.insert(key, value);
MergedCreating(map, device, key, value) ==
    [d \in DOMAIN map \cup {device} |->
        IF d = device
        THEN [category |-> "wifielement", mac |-> device, type_code |-> "",
              attributes |-> [k \in {key} |-> value]]
        ELSE map[d]]
MergedKeepingFirst(map, device, key, value) ==
    IF device \notin DOMAIN map \/ key \in DOMAIN map[device].attributes
    THEN map
    ELSE [map EXCEPT ![device].attributes = [k \in DOMAIN @ \cup {key} |->
                                                IF k = key THEN value ELSE @[k]]]
Merged(map, device, key, value) ==
    IF device \notin DOMAIN map
    THEN map
    ELSE [map EXCEPT ![device].attributes = [k \in DOMAIN @ \cup {key} |->
                                                IF k = key THEN value ELSE @[k]]]

\* The Refs of state.devices.get(&id) that are alive on the entry of id.
RefsHeld(id) == IF id \in DOMAIN refs THEN refs[id] ELSE 0

\* get_mut answers once no Ref on the entry is alive: a DashMap entry is
\* behind a read-write lock.
WriteAccessAnyway(id) == TRUE
WriteAccess(id) == RefsHeld(id) = 0

\* The pump task: one iteration of for (key, value) in attributes.
ServerPumpApply ==
    /\ serverPc = "serving"
    /\ pump.pc = "applying"
    /\ WriteAccess(pump.device)
    /\ LET key == Head(pump.todo)[1]
           value == Head(pump.todo)[2]
           rest == Tail(pump.todo)
       IN  /\ cache' = Merged(cache, pump.device, key, value)
           /\ applied' =
                IF pump.device \in DOMAIN cache
                THEN [dk \in DOMAIN applied \cup {<<pump.device, key>>} |->
                         IF dk = <<pump.device, key>> THEN value ELSE applied[dk]]
                ELSE applied
           /\ pump' = IF rest = <<>>
                      THEN [pc |-> "polling", device |-> <<>>, todo |-> <<>>]
                      ELSE [pump EXCEPT !.todo = rest]
    /\ UNCHANGED clientVars
    /\ UNCHANGED <<serverPc, response, inboundVars, snapshot, setCall, world, refs>>

\* poll returns Err(Disconnected) for want of a network: the loop of the pump
\* task ends and drops the handler.
ServerPumpEnds ==
    /\ serverPc = "serving"
    /\ pump.pc = "polling"
    /\ \E c \in ConnIds : PollError(c, TRUE)
    /\ pump' = [pc |-> "ended", device |-> <<>>, todo |-> <<>>]
    /\ UNCHANGED <<serverVars, snapshot, applied, setCall, world, refs>>

\* The status messages the broker forwards to the server: the switch of one
\* device.
ServerPackets ==
    {PublishPacket(StatusTopic(LifeMac), ArrayPayload(<<Item(Some("switch"), Some(v))>>)) :
        v \in SwitchValues}

ServerBrokerSends ==
    /\ serverPc = "serving"
    /\ \E c \in ConnIds, packet \in ServerPackets :
          /\ packet.topic \in subscribed[c]
          /\ BrokerSends(c, packet)
    /\ UNCHANGED <<serverVars, taskVars>>

ServerTransportError ==
    /\ serverPc = "serving"
    /\ \E c \in ConnIds : TransportError(c)
    /\ UNCHANGED otherVars

\* Device::get_attribute
GetAttribute(device, attribute) ==
    IF attribute \in DOMAIN device.attributes
    THEN Some(device.attributes[attribute])
    ELSE NoneV

\* let new_switch = if switch == "0" { "1" } else { "0" };
NewSwitchSame(switch) == switch
NewSwitch(switch) == IF switch = "0" THEN "1" ELSE "0"

\* The route holds state.devices.get(&id), a shared Ref: it reads the entry
\* and publishes, and the map stays as it is.
ToggleWrites(map, id, new_switch) == Merged(map, id, "switch", new_switch)
ToggleReads(map, id, new_switch) == map

\* routes::toggle_device
ToggleDevice(id) ==
    /\ IF id \notin DOMAIN cache
       THEN /\ response' = [route |-> "toggle", id |-> id, status |-> 404, value |-> "",
                            cached |-> NoneV, found |-> FALSE, pubs |-> 0,
                            req |-> NoRequest, body |-> {}]
            /\ cache' = cache
            /\ UNCHANGED clientVars
       ELSE LET device == cache[id]
                switch == GetAttribute(device, "switch")
            IN  IF ~IsSome(switch)
                THEN /\ response' = [route |-> "toggle", id |-> id, status |-> 400,
                                     value |-> "", cached |-> NoneV, found |-> TRUE,
                                     pubs |-> 0, req |-> NoRequest, body |-> {}]
                     /\ cache' = cache
                     /\ UNCHANGED clientVars
                ELSE LET new_switch == NewSwitch(Unwrap(switch))
                     IN  /\ SetDeviceAttribute(DeviceMac(device), "switch", new_switch)
                         /\ cache' = ToggleReads(cache, id, new_switch)
                         /\ response' =
                              [route |-> "toggle", id |-> id,
                               status |-> IF last'.result = "ok" THEN 200 ELSE 500,
                               value |-> IF last'.result = "ok" THEN new_switch ELSE "",
                               cached |-> switch, found |-> TRUE,
                               pubs |-> last'.pubs, req |-> last'.req, body |-> {}]
    /\ UNCHANGED <<serverPc, inboundVars, taskVars>>

\* .route("/devices/:id/toggle", post(routes::toggle_device)): a request that
\* passed the authorization layer, once the server is serving
ServerToggle ==
    /\ serverPc = "serving"
    /\ \E id \in PathIds : ToggleDevice(id)

NextServer ==
    \/ ServerSetSession
    \/ ServerLogin
    \/ ServerStart
    \/ ServerSnapshot
    \/ ServerServe
    \/ ServerPump
    \/ ServerBrokerSends
    \/ ServerPumpPoll
    \/ ServerPumpApply
    \/ ServerPumpEnds
    \/ ServerTransportError
    \/ ServerToggle

SpecServer == InitServer /\ [][NextServer]_vars

\* The server with a fixed snapshot, fed status messages of a cached device
\* and of an id that is not cached, well-formed and malformed.
OtherMac == <<"B", "2">>
AbsentMac == <<"C", "3">>

CacheDevices ==
    <<[category |-> "wifielement", mac |-> LifeMac, type_code |-> "bulb",
       attributes |-> [k \in {"switch"} |-> "0"]],
      [category |-> "wifielement", mac |-> OtherMac, type_code |-> "bulb",
       attributes |-> [k \in {"switch", "brightness"} |-> "1"]]>>

CacheItems ==
    {Item(Some("switch"), Some("0")), Item(Some("switch"), Some("1")),
     Item(Some("brightness"), Some("5"))}

CachePackets ==
    {PublishPacket(StatusTopic(LifeMac), pl) :
        pl \in {ArrayPayload(items) : items \in SeqsUpTo(CacheItems, MaxAttrs)}
                 \cup MalformedPayloads}
        \cup {PublishPacket(StatusTopic(AbsentMac), ArrayPayload(<<it>>)) : it \in CacheItems}
        \cup {PublishPacket(StatusTopic(LowerMac),
                            ArrayPayload(<<Item(Some("switch"), Some("1"))>>))}

CacheSnapshot == serverPc = "started" /\ Snapshot("ok", CacheDevices)

\* The broker sends the next message once the last one has been taken.
CacheBrokerSends ==
    /\ serverPc = "serving"
    /\ \E c \in ConnIds, packet \in CachePackets :
          /\ inbox[c] = <<>>
          /\ BrokerSends(c, packet)
    /\ UNCHANGED <<serverVars, taskVars>>

NextCache ==
    \/ ServerSetSession
    \/ ServerStart
    \/ CacheSnapshot
    \/ ServerServe
    \/ ServerPump
    \/ CacheBrokerSends
    \/ ServerPumpPoll
    \/ ServerPumpApply

SpecCache == InitServer /\ [][NextCache]_vars

----------------------------------------------------------------------------
(* The routes of the server (sengled-server/src/routes.rs) beside toggle    *)

Responded(route, id, status, body) ==
    [route |-> route, id |-> id, status |-> status, value |-> "", cached |-> NoneV,
     found |-> status # 404, pubs |-> 0, req |-> NoRequest, body |-> body]

\* routes::get_devices: Json(state.devices.iter().map(..).collect())
GetDevices ==
    /\ response' = Responded("get_devices", <<>>, 200, {cache[d] : d \in DOMAIN cache})
    /\ UNCHANGED clientVars
    /\ UNCHANGED <<cache, serverPc, inboundVars, taskVars>>

\* routes::get_device
GetDevice(id) ==
    /\ response' = IF id \in DOMAIN cache
                   THEN Responded("get_device", id, 200, {cache[id]})
                   ELSE Responded("get_device", id, 404, {})
    /\ UNCHANGED clientVars
    /\ UNCHANGED <<cache, serverPc, inboundVars, taskVars>>

ServerGetDevices == serverPc = "serving" /\ GetDevices
ServerGetDevice == serverPc = "serving" /\ \E id \in PathIds : GetDevice(id)

\* for bulk in payload { for device in bulk.devices { .. } }: the calls the
\* route goes through, as (device, attributes) in loop order.
RECURSIVE Calls(_)
Calls(payload) ==
    IF payload = <<>> THEN <<>>
    ELSE [i \in 1..Len(Head(payload).devices) |->
             <<Head(payload).devices[i], Head(payload).attributes>>]
         \o Calls(Tail(payload))

\* bulk.attributes.iter().collect::<Vec<_>>(): the entries of the HashMap,
\* each once, in whichever order the map iterates.
Collected(map) ==
    {q \in SeqsUpTo({<<k, map[k]>> : k \in DOMAIN map}, Cardinality(DOMAIN map)) :
        /\ Len(q) = Cardinality(DOMAIN map)
        /\ \A i, j \in 1..Len(q) : q[i] = q[j] => i = j}

SetIdle == [pc |-> "none", todo |-> <<>>]

\* routes::set_device_attributes, on Json(payload)
SetRouteBegin(payload) ==
    /\ setCall.pc = "none"
    /\ setCall' = [pc |-> "looping", todo |-> Calls(payload)]
    /\ UNCHANGED clientVars
    /\ UNCHANGED <<serverVars, inboundVars, pump, snapshot, applied, world, refs>>

\* The head of the inner loop: client.set_device_attributes(device, ..) runs
\* up to its own loop.
SetRouteCall ==
    /\ setCall.pc = "looping"
    /\ setCall.todo # <<>>
    /\ \E attributes \in Collected(Head(setCall.todo)[2]) :
          BulkStart(Head(setCall.todo)[1], attributes)
    /\ setCall' = IF IsSome(bulk') THEN [setCall EXCEPT !.pc = "calling"] ELSE SetIdle
    /\ UNCHANGED <<serverVars, inboundVars, pump, snapshot, applied, world, refs>>

SetRoutePush ==
    /\ setCall.pc = "calling"
    /\ BulkPush
    /\ UNCHANGED otherVars

\* The call returns: .is_err() => return StatusCode::INTERNAL_SERVER_ERROR
SetRouteSend ==
    /\ setCall.pc = "calling"
    /\ BulkSend
    /\ IF last'.result = "ok"
       THEN /\ setCall' = [pc |-> "looping", todo |-> Tail(setCall.todo)]
            /\ response' = response
       ELSE /\ setCall' = SetIdle
            /\ response' = IF last'.result = "panic" THEN response
                           ELSE Responded("set_device_attributes", <<>>, 500, {})
    /\ UNCHANGED <<cache, serverPc, inboundVars, pump, snapshot, applied, world, refs>>

\* Both loops done: StatusCode::OK
SetRouteEnd ==
    /\ setCall.pc = "looping"
    /\ setCall.todo = <<>>
    /\ setCall' = SetIdle
    /\ response' = Responded("set_device_attributes", <<>>, 200, {})
    /\ UNCHANGED clientVars
    /\ UNCHANGED <<cache, serverPc, inboundVars, pump, snapshot, applied, world, refs>>

\* The request bodies of the set route: no bulk, a bulk without devices, one
\* attribute for one device, and a bulk without attributes followed by a bulk
\* of two attributes for a cached device and an id that is not cached.
SetPayloads ==
    {<<>>,
     <<[devices |-> <<>>, attributes |-> [k \in {"switch"} |-> "1"]]>>,
     <<[devices |-> <<LifeMac>>, attributes |-> [k \in {"switch"} |-> "1"]]>>,
     <<[devices |-> <<LifeMac>>, attributes |-> <<>>],
       [devices |-> <<OtherMac, AbsentMac>>,
        attributes |-> [k \in {"switch", "brightness"} |-> IF k = "switch" THEN "0" ELSE "5"]]>>}

ServerSetBegin == serverPc = "serving" /\ \E payload \in SetPayloads : SetRouteBegin(payload)
ServerSetCall == serverPc = "serving" /\ SetRouteCall
ServerSetPush == serverPc = "serving" /\ SetRoutePush
ServerSetSend == serverPc = "serving" /\ SetRouteSend
ServerSetEnd == serverPc = "serving" /\ SetRouteEnd

\* The status messages the broker forwards while the routes run: the echo of
\* a write, for a cached device and for an id that is not cached.
RoutePackets ==
    {PublishPacket(StatusTopic(LifeMac), ArrayPayload(<<Item(Some("switch"), Some(v))>>)) :
        v \in SwitchValues}
      \cup {PublishPacket(StatusTopic(AbsentMac),
                          ArrayPayload(<<Item(Some("switch"), Some("1"))>>))}

\* The request body the routes specification posts: one device, one attribute.
RoutePayloads ==
    {<<[devices |-> <<LifeMac>>, attributes |-> [k \in {"switch"} |-> "1"]]>>}

RouteSetBegin == serverPc = "serving" /\ \E payload \in RoutePayloads : SetRouteBegin(payload)

RouteBrokerSends ==
    /\ serverPc = "serving"
    /\ \E c \in ConnIds, packet \in RoutePackets :
          /\ inbox[c] = <<>>
          /\ BrokerSends(c, packet)
    /\ UNCHANGED <<serverVars, taskVars>>

NextRoutes ==
    \/ ServerSetSession
    \/ ServerStart
    \/ CacheSnapshot
    \/ ServerServe
    \/ ServerPump
    \/ RouteBrokerSends
    \/ ServerPumpPoll
    \/ ServerPumpApply
    \/ ServerGetDevices
    \/ ServerGetDevice
    \/ ServerToggle
    \/ RouteSetBegin
    \/ ServerSetCall
    \/ ServerSetPush
    \/ ServerSetSend
    \/ ServerSetEnd

SpecRoutes == InitServer /\ [][NextRoutes]_vars

\* The set route alone, on every request body of SetPayloads.
NextSet ==
    \/ ServerSetSession
    \/ ServerStart
    \/ CacheSnapshot
    \/ ServerServe
    \/ ServerPump
    \/ ServerTransportError
    \/ ServerPumpEnds
    \/ ServerSetBegin
    \/ ServerSetCall
    \/ ServerSetPush
    \/ ServerSetSend
    \/ ServerSetEnd

SpecSet == InitServer /\ [][NextSet]_vars

----------------------------------------------------------------------------
(* The server with a backlog of inbound packets *)

\* What the broker delivers while earlier packets wait to be taken: status
\* messages of two cached devices, a publish on an update topic and a ping
\* response.
OrderPackets ==
    {PublishPacket(StatusTopic(LifeMac), ArrayPayload(<<Item(Some("switch"), Some(v))>>)) :
        v \in SwitchValues}
      \cup {PublishPacket(StatusTopic(LifeMac),
                          ArrayPayload(<<Item(Some("switch"), Some("1")),
                                         Item(Some("brightness"), Some("5"))>>)),
            PublishPacket(StatusTopic(OtherMac),
                          ArrayPayload(<<Item(Some("switch"), Some("0"))>>)),
            PublishPacket(UpdateTopic(LifeMac),
                          ArrayPayload(<<Item(Some("switch"), Some("1"))>>)),
            ControlPacket("PingResp")}

OrderBrokerSends ==
    /\ serverPc = "serving"
    /\ \E c \in ConnIds, packet \in OrderPackets : BrokerSendsUpTo(c, packet, MaxBacklog)
    /\ UNCHANGED <<serverVars, taskVars>>

NextOrder ==
    \/ ServerSetSession
    \/ ServerStart
    \/ CacheSnapshot
    \/ ServerServe
    \/ ServerPump
    \/ OrderBrokerSends
    \/ ServerPumpPoll
    \/ ServerPumpApply

SpecOrder == InitServer /\ [][NextOrder]_vars

----------------------------------------------------------------------------
(* The caller that leaves the pumping to the listener, or to nobody *)

\* The caller never polls: it starts the client, may spawn the listener, and
\* subscribes and publishes as long as the channel takes its requests.
PumpSetSession ==
    /\ ~IsSome(session)
    /\ \E v \in LifeTokens : SetSession(v)
    /\ UNCHANGED otherVars

PumpStart ==
    /\ ~IsSome(state)
    /\ Start("ok", "ConnAckSuccess", MaxLifeConns)
    /\ UNCHANGED otherVars

PumpSpawnListener == (\E c \in ConnIds : SpawnListener(c)) /\ UNCHANGED otherVars

PumpSubscribeDevice ==
    /\ IsSome(state)
    /\ SubscribeDeviceUpTo(LifeMac, Cap + 1)
    /\ UNCHANGED otherVars

PumpSetDeviceAttribute ==
    /\ IsSome(state)
    /\ SetDeviceAttributeUpTo(LifeMac, "switch", "1", Cap + 1)
    /\ UNCHANGED otherVars

PumpListenerPoll == (\E c \in ConnIds : ListenerPoll(c)) /\ UNCHANGED otherVars

NextPump ==
    \/ PumpSetSession
    \/ PumpStart
    \/ PumpSpawnListener
    \/ PumpSubscribeDevice
    \/ PumpSetDeviceAttribute
    \/ PumpListenerPoll

\* tokio runs the spawned listener task whenever it can take a step.
SpecPump == Init /\ [][NextPump]_vars /\ WF_vars(PumpListenerPoll)

----------------------------------------------------------------------------
(* The caller that spawns the listener, sends requests and closes *)

ShutSetSession ==
    /\ ~IsSome(session)
    /\ \E v \in LifeTokens : SetSession(v)
    /\ UNCHANGED otherVars

ShutStart ==
    /\ ~IsSome(state)
    /\ \E f \in LifeFirstEvents : Start("ok", f, MaxLifeConns)
    /\ UNCHANGED otherVars

ShutSpawnListener == (\E c \in ConnIds : SpawnListener(c)) /\ UNCHANGED otherVars
ShutSubscribeDevices == (\E macs \in {<<>>, <<LifeMac>>} : SubscribeDevices(macs)) /\ UNCHANGED otherVars
ShutSetDeviceAttribute ==
    (\E v \in SwitchValues : SetDeviceAttribute(LifeMac, "switch", v)) /\ UNCHANGED otherVars
ShutListenerPoll == (\E c \in ConnIds : ListenerPoll(c)) /\ UNCHANGED otherVars
ShutHandlerPoll == (\E c \in ConnIds : HandlerPoll(c)) /\ UNCHANGED otherVars
ShutTransportError == (\E c \in ConnIds : TransportError(c)) /\ UNCHANGED otherVars
ShutCloseBegin == CloseBegin /\ UNCHANGED otherVars
ShutCloseJoin == CloseJoin /\ UNCHANGED otherVars

NextShut ==
    \/ ShutSetSession
    \/ ShutStart
    \/ ShutSpawnListener
    \/ ShutSubscribeDevices
    \/ ShutSetDeviceAttribute
    \/ ShutListenerPoll
    \/ ShutHandlerPoll
    \/ ShutTransportError
    \/ ShutCloseBegin
    \/ ShutCloseJoin

\* tokio runs the listener task and the task awaiting in close whenever they
\* can take a step.
SpecShut ==
    Init /\ [][NextShut]_vars /\ WF_vars(ShutListenerPoll) /\ WF_vars(ShutCloseJoin)

----------------------------------------------------------------------------
(* The server and a device whose switch changes on its own *)

\* The switch of the device changes.  The broker publishes the new value on
\* the status topic of the device, to the connections subscribed to it at
\* that moment; the message is not retained.  A change after the snapshot
\* that reaches no connection is recorded as missed.
DeviceChanges(mac, v) ==
    /\ world.switch # v
    /\ \A c \in ConnIds : StatusTopic(mac) \in subscribed[c] => Len(inbox[c]) < MaxInbox
    /\ world' = [switch |-> v,
                 missed |-> \/ world.missed
                            \/ /\ snapshot # <<>>
                               /\ \A c \in ConnIds : StatusTopic(mac) \notin subscribed[c]]
    /\ inbox' = [c \in ConnIds |->
                    IF StatusTopic(mac) \in subscribed[c]
                    THEN Append(inbox[c],
                                PublishPacket(StatusTopic(mac),
                                              ArrayPayload(<<Item(Some("switch"), Some(v))>>)))
                    ELSE inbox[c]]
    /\ UNCHANGED <<disconnected, polled, pump, snapshot, applied, setCall, refs>>
    /\ UNCHANGED clientVars

GapDeviceChanges == (\E v \in SwitchValues : DeviceChanges(LifeMac, v)) /\ UNCHANGED serverVars

\* The REST response reports the device as it is when the request is served.
GapSnapshot ==
    /\ serverPc = "started"
    /\ Snapshot("ok", <<[category |-> "wifielement", mac |-> LifeMac, type_code |-> "bulb",
                         attributes |-> [k \in {"switch"} |-> world.switch]]>>)

NextGap ==
    \/ ServerSetSession
    \/ ServerStart
    \/ GapSnapshot
    \/ ServerServe
    \/ ServerPump
    \/ GapDeviceChanges
    \/ ServerPumpPoll
    \/ ServerPumpApply
    \/ ServerGetDevice

SpecGap == InitServer /\ [][NextGap]_vars

----------------------------------------------------------------------------
(* The server fed payloads that do not parse, with reads going on *)

\* Status messages of a cached device, well-formed and malformed, and a
\* malformed status message of a device whose id has a lower-case letter.
AbortPackets ==
    {PublishPacket(StatusTopic(LifeMac), pl) :
        pl \in {ArrayPayload(<<Item(Some("switch"), Some(v))>>) : v \in SwitchValues}
                 \cup MalformedPayloads}
      \cup {PublishPacket(StatusTopic(LowerMac), pl) : pl \in MalformedPayloads}

AbortBrokerSends ==
    /\ serverPc = "serving"
    /\ \E c \in ConnIds, packet \in AbortPackets : BrokerSends(c, packet)
    /\ UNCHANGED <<serverVars, taskVars>>

NextAbort ==
    \/ ServerSetSession
    \/ ServerStart
    \/ CacheSnapshot
    \/ ServerServe
    \/ ServerPump
    \/ AbortBrokerSends
    \/ ServerPumpPoll
    \/ ServerPumpApply
    \/ ServerGetDevices
    \/ ServerGetDevice

SpecAbort == InitServer /\ [][NextAbort]_vars

----------------------------------------------------------------------------
(* Toggle handlers running beside the pump, the channel at its real capacity *)

Held(map, id) ==
    [d \in DOMAIN map \cup {id} |-> IF d = id THEN RefsHeld(id) + 1 ELSE map[d]]

Released(map, id) ==
    [d \in DOMAIN map |-> IF d = id THEN map[d] - 1 ELSE map[d]]

RefsAlive == IF DOMAIN refs = {} THEN 0 ELSE RefsHeld(LifeMac) + RefsHeld(AbsentMac)

\* routes::toggle_device up to its .await: the Ref of state.devices.get(&id)
\* and the attribute read through it.  The two early returns drop the Ref.
ToggleGet(id) ==
    /\ IF id \notin DOMAIN cache
       THEN /\ response' = [route |-> "toggle", id |-> id, status |-> 404, value |-> "",
                            cached |-> NoneV, found |-> FALSE, pubs |-> 0,
                            req |-> NoRequest, body |-> {}]
            /\ refs' = refs
       ELSE IF ~IsSome(GetAttribute(cache[id], "switch"))
       THEN /\ response' = [route |-> "toggle", id |-> id, status |-> 400,
                            value |-> "", cached |-> NoneV, found |-> TRUE,
                            pubs |-> 0, req |-> NoRequest, body |-> {}]
            /\ refs' = refs
       ELSE /\ RefsAlive < MaxToggles
            /\ refs' = Held(refs, id)
            /\ response' = response
    /\ UNCHANGED clientVars
    /\ UNCHANGED <<cache, serverPc, inboundVars, pump, snapshot, applied, setCall, world>>

\* routes::toggle_device from set_device_attribute(..).await to its return:
\* the publish goes on the channel once it has room, and the Ref, alive
\* until then, is dropped with the handler's locals.
ToggleSend(id) ==
    /\ RefsHeld(id) > 0
    /\ LET device == cache[id]
           switch == GetAttribute(device, "switch")
           new_switch == NewSwitch(Unwrap(switch))
       IN  /\ SetDeviceAttributeUpTo(DeviceMac(device), "switch", new_switch, Cap + 1)
           /\ response' =
                [route |-> "toggle", id |-> id,
                 status |-> IF last'.result = "ok" THEN 200 ELSE 500,
                 value |-> IF last'.result = "ok" THEN new_switch ELSE "",
                 cached |-> switch, found |-> TRUE,
                 pubs |-> last'.pubs, req |-> last'.req, body |-> {}]
    /\ refs' = Released(refs, id)
    /\ UNCHANGED <<cache, serverPc, inboundVars, pump, snapshot, applied, setCall, world>>

LockToggleGet ==
    /\ serverPc = "serving"
    /\ \E id \in {LifeMac, AbsentMac} : ToggleGet(id)

LockToggleSend ==
    /\ serverPc = "serving"
    /\ \E id \in {LifeMac} : ToggleSend(id)

\* The device reports its switch on.
LockPackets ==
    {PublishPacket(StatusTopic(LifeMac), ArrayPayload(<<Item(Some("switch"), Some("1"))>>))}

LockBrokerSends ==
    /\ serverPc = "serving"
    /\ \E c \in ConnIds, packet \in LockPackets : BrokerSends(c, packet)
    /\ UNCHANGED <<serverVars, taskVars>>

NextLock ==
    \/ ServerSetSession
    \/ ServerStart
    \/ CacheSnapshot
    \/ ServerServe
    \/ ServerPump
    \/ LockBrokerSends
    \/ ServerPumpPoll
    \/ ServerPumpApply
    \/ LockToggleGet
    \/ LockToggleSend

SpecLock == InitServer /\ [][NextLock]_vars

----------------------------------------------------------------------------
(* The server from boot, the broker sending as soon as a topic is subscribed *)

BootPackets ==
    {PublishPacket(StatusTopic(m), ArrayPayload(<<Item(Some("switch"), Some(v))>>)) :
        m \in {LifeMac, OtherMac, AbsentMac}, v \in SwitchValues}

\* The broker forwards a status message once the connection has the topic
\* among its filters, whatever main has reached.
BootBrokerSends ==
    /\ \E c \in ConnIds, packet \in BootPackets :
          /\ packet.topic \in subscribed[c]
          /\ BrokerSendsUpTo(c, packet, MaxBacklog)
    /\ UNCHANGED <<serverVars, taskVars>>

NextBoot ==
    \/ ServerSetSession
    \/ ServerStart
    \/ CacheSnapshot
    \/ ServerServe
    \/ ServerPump
    \/ BootBrokerSends
    \/ ServerPumpPoll
    \/ ServerPumpApply

SpecBoot == InitServer /\ [][NextBoot]_vars

----------------------------------------------------------------------------
(* Subscriptions by device id, and the decoder on the topics they name *)

\* subscribe_device and subscribe_devices take any string for an id: one of
\* the pattern's characters, one with a lower-case letter, one with a dash.
DashMac == <<"A", "-", "1">>
TopicIds == {LifeMac, LowerMac, DashMac}

TopicSubscribeDevice == (\E m \in TopicIds : SubscribeDevice(m)) /\ UNCHANGED otherVars

TopicSubscribeDevices ==
    /\ \E ms \in {<<LifeMac, LowerMac>>, <<DashMac>>} : SubscribeDevices(ms)
    /\ UNCHANGED otherVars

TopicPackets ==
    {PublishPacket(StatusTopic(m), ArrayPayload(<<Item(Some("switch"), Some("1"))>>)) :
        m \in TopicIds}

TopicBrokerSends ==
    /\ \E c \in ConnIds, packet \in TopicPackets :
          /\ packet.topic \in subscribed[c]
          /\ BrokerSends(c, packet)
    /\ UNCHANGED <<serverVars, taskVars>>

NextTopic ==
    \/ InSetSession
    \/ InStart
    \/ TopicSubscribeDevice
    \/ TopicSubscribeDevices
    \/ InHandlerPoll
    \/ TopicBrokerSends
    \/ InPollIncoming

SpecTopic == Init /\ [][NextTopic]_vars

----------------------------------------------------------------------------
(* Properties *)

\* C1: a login on a client on which a login has already succeeded (and that
\* was not closed since) fails with LoggedIn and sends no REST request.
C1_SecondLoginRefused ==
    (last.op = "login" /\ last.authed)
        => (last.result = "LoggedIn" /\ last.rest = 0)

GuardedOps ==
    {"wifi_devices", "get_wifi_devices_and_subscribe", "subscribe_device",
     "subscribe_devices", "set_device_attribute", "set_device_attributes"}

\* C2: each of the six operations, called while the client has no
\* ClientState, panics and emits no REST request, no subscribe and no publish.
C2_FailFastBeforeConnection ==
    (last.op \in GuardedOps /\ last.pre # "Connected")
        => /\ last.result = "panic"
           /\ last.rest = 0
           /\ last.subs = 0
           /\ last.pubs = 0
           /\ last.req = NoRequest

C2_PanicReached ==
    /\ last.op = "set_device_attribute"
    /\ last.pre = "AuthNoTransport"
    /\ last.result = "panic"

\* The connections whose event loop exists and whose network is up.
ActiveConns ==
    {c \in ConnIds : conns[c].net = "up" /\ conns[c].holder \in {"caller", "listener"}}

\* C3: at most one connection of the client is active.
C3_AtMostOneConnection == Cardinality(ActiveConns) <= 1

\* C4: a client that has a ClientState has a session, and once close has
\* returned the client has neither.
C4_TokenAndHandleTogether ==
    /\ IsSome(state) => IsSome(session)
    /\ clientPc = "closed" => (~IsSome(state) /\ ~IsSome(session))

C4_ClosedAfterConnected ==
    /\ clientPc = "closed"
    /\ IsSome(closing)
    /\ last.op = "close"
    /\ last.pre = "Connected"

\* C5 as claimed: the lifecycle state changes only in a step of login, start
\* or close.
C5_OnlyLoginStartClose ==
    [][Lifecycle' # Lifecycle => (DoLogin \/ DoStart \/ DoCloseBegin \/ DoCloseJoin)]_vars

\* C5 as amended: the lifecycle state changes only in a step of login,
\* set_session, start or close; Connected is entered only by a start that
\* returns Ok from a state with a session; a start without a session panics
\* and creates no connection.
C5_LifecycleTransitions ==
    [][/\ Lifecycle' # Lifecycle
            => (DoLogin \/ DoSetSession \/ DoStart \/ DoCloseBegin \/ DoCloseJoin)
       /\ (Lifecycle # "Connected" /\ Lifecycle' = "Connected")
            => (DoStart /\ IsSome(session) /\ last'.result = "ok")
       /\ (DoStart /\ Lifecycle = "Unauthenticated")
            => (last'.result = "panic" /\ UNCHANGED <<state, conns, nextConn>>)
      ]_vars

C5_ConnectedByStart ==
    /\ Lifecycle = "Connected"
    /\ last.op = "start"
    /\ last.pre = "AuthNoTransport"
    /\ last.result = "ok"

\* C6: a start that reaches its wait for the first event returns Ok and
\* installs the new ClientState exactly when that event is a ConnAck with code
\* Success; on any other first event it returns ConnectionFailure, leaves no
\* event loop behind and leaves the client's state as it was.
C6_StartWaitsOnce ==
    [][(ConnStart /\ last'.first # "none")
        => /\ (last'.result = "ok") <=> (last'.first = "ConnAckSuccess")
           /\ last'.first = "ConnAckSuccess"
                => /\ state' = Some([mqtt |-> nextConn, listener_handle |-> NoneV])
                   /\ conns'[nextConn].net = "up"
                   /\ nextConn' = nextConn + 1
           /\ last'.first # "ConnAckSuccess"
                => /\ last'.result = "ConnectionFailure"
                   /\ UNCHANGED <<session, state, conns, nextConn>>
      ]_vars

C6_RefusedStart ==
    /\ last.op = "start"
    /\ last.first = "ConnAckRefused"
    /\ last.result = "ConnectionFailure"
    /\ ~IsSome(state)

\* C7: when close has returned Ok, no publish request accepted on the closed
\* connection is still waiting in its request channel.
C7_CloseFlushesPublishes ==
    (clientPc = "closed" /\ IsSome(closing) /\ last.op = "close" /\ last.result = "ok")
        => \A i \in 1..Len(conns[Unwrap(closing).mqtt].queue) :
               conns[Unwrap(closing).mqtt].queue[i].type # "Publish"

\* C8 as claimed: the time fields of the records built by publish calls are
\* non-decreasing in call order.
C8_TimeNonDecreasing ==
    \A i, j \in 1..Len(pubLog) : i < j => pubLog[i].time <= pubLog[j].time

\* C8 as amended: the time field of every record is the millisecond value of
\* the wall clock read when the record was built, and the time fields are
\* non-decreasing in call order between records built without the wall clock
\* having been set back in between.
C8_TimeFollowsClock ==
    \A i \in 1..Len(pubLog) :
        /\ pubLog[i].time * TicksPerMilli <= pubLog[i].read
        /\ pubLog[i].read < (pubLog[i].time + 1) * TicksPerMilli
        /\ \A j \in 1..Len(pubLog) :
              (i < j /\ pubLog[i].epoch = pubLog[j].epoch)
                  => pubLog[i].time <= pubLog[j].time

C8_LaterPublishLaterTime ==
    /\ Len(pubLog) >= 2
    /\ pubLog[1].epoch = pubLog[2].epoch
    /\ pubLog[1].time < pubLog[2].time

\* C9: on every connection the broker's set of subscribed topics is the set
\* it would hold had every subscribe_devices call, of any list of ids, the
\* empty list included, been made as one subscribe_device call per listed
\* id, in any order.
C9_BulkEqualsSingles ==
    \A c \in ConnIds : subscribed[c] = shadowSubscribed[c]

\* C10 as claimed: a toggle of a cached device with a switch attribute
\* publishes exactly one message, on the device's update topic, that sets
\* switch to "1" if the cached switch was "0" and to "0" if it was "1"; a
\* toggle of an id that is not cached, or of a cached device without a switch
\* attribute, is rejected and publishes nothing.
C10_ToggleAlwaysPublishes ==
    response.route = "toggle" =>
        /\ ~response.found => (response.status = 404 /\ response.pubs = 0)
        /\ (response.found /\ ~IsSome(response.cached))
              => (response.status = 400 /\ response.pubs = 0)
        /\ (response.found /\ IsSome(response.cached))
              => /\ response.pubs = 1
                 /\ response.req.topic = UpdateTopic(response.id)
                 /\ Unwrap(response.cached) = "0"
                       => response.req.payload.records[1].value = "1"
                 /\ Unwrap(response.cached) = "1"
                       => response.req.payload.records[1].value = "0"

\* C10 as amended: a toggle of an id that is not cached, or of a cached device without
\* a switch attribute, is rejected and publishes nothing; a toggle answered
\* with success has published exactly one message, on the device's update
\* topic, that sets switch to "1" if the cached switch was "0" and to "0" if
\* it was "1"; a toggle whose publish the client refuses publishes nothing.
C10_Toggle ==
    response.route = "toggle" =>
        /\ ~response.found => (response.status = 404 /\ response.pubs = 0)
        /\ (response.found /\ ~IsSome(response.cached))
              => (response.status = 400 /\ response.pubs = 0)
        /\ (response.found /\ IsSome(response.cached))
              => /\ response.status \in {200, 500}
                 /\ response.status = 500 => response.pubs = 0
                 /\ response.status = 200 =>
                      /\ response.pubs = 1
                      /\ response.req.type = "Publish"
                      /\ response.req.topic = UpdateTopic(response.id)
                      /\ response.req.payload.kind = "object"
                      /\ Len(response.req.payload.records) = 1
                      /\ response.req.payload.records[1].dn = response.id
                      /\ response.req.payload.records[1].type = "switch"
                      /\ Unwrap(response.cached) = "0"
                            => response.req.payload.records[1].value = "1"
                      /\ Unwrap(response.cached) = "1"
                            => response.req.payload.records[1].value = "0"

C10_ToggledOn ==
    /\ response.route = "toggle"
    /\ response.status = 200
    /\ response.cached = Some("0")
    /\ response.pubs = 1

\* The value of the last pair of attributes that names key.
LastValue(attributes, key) ==
    LET named == {i \in 1..Len(attributes) : attributes[i][1] = key}
        last_i == CHOOSE i \in named : \A j \in named : j <= i
    IN  attributes[last_i][2]

\* The event that poll last returned carries the device id of the topic of
\* one status message and the pairs of its payload, in payload order.
EventOfOnePacket ==
    /\ polled.packet.kind = "Publish"
    /\ polled.packet.topic = StatusTopic(polled.device)
    /\ polled.packet.payload.shape = "array"
    /\ Len(polled.attributes) = Len(polled.packet.payload.items)
    /\ \A i \in 1..Len(polled.attributes) :
          /\ Some(polled.attributes[i][1]) = polled.packet.payload.items[i].type
          /\ Some(polled.attributes[i][2]) = polled.packet.payload.items[i].value

EventApplied == polled.result = "event" /\ pump.pc = "polling"

\* C11 as claimed: an event the decoder yields is the event of one status
\* message, and once the pump has applied it the cache reports every carried
\* value for the event's device.
C11_EveryCarriedValueCached ==
    EventApplied =>
        /\ EventOfOnePacket
        /\ \A i \in 1..Len(polled.attributes) :
              /\ polled.device \in DOMAIN cache
              /\ polled.attributes[i][1] \in DOMAIN cache[polled.device].attributes
              /\ cache[polled.device].attributes[polled.attributes[i][1]]
                    = polled.attributes[i][2]

\* A step of the pump's poll that takes, from connection c, a status message
\* whose id is made of digits, A-F and colons and whose payload is an array of
\* {type, value} records.
TakesStatusMessage(c) ==
    /\ pump.pc = "polling"
    /\ inbox[c] # <<>>
    /\ inbox'[c] = Tail(inbox[c])
    /\ Head(inbox[c]).kind = "Publish"
    /\ \E mac \in {LifeMac, OtherMac, AbsentMac} : Head(inbox[c]).topic = StatusTopic(mac)
    /\ Head(inbox[c]).payload.shape = "array"
    /\ \A i \in 1..Len(Head(inbox[c]).payload.items) :
          /\ IsSome(Head(inbox[c]).payload.items[i].type)
          /\ IsSome(Head(inbox[c]).payload.items[i].value)

\* C11 as amended: a status message whose id is made of digits, A-F and
\* colons and whose payload is an array of {type, value} records makes the
\* decoder yield one event, which carries the id of the topic and the pairs
\* of the payload in payload order; once the pump has applied an event to a
\* device that is cached, the cache reports, for every key the event carries,
\* the value of the last pair that carries the key.
C11_DecodedAndCached ==
    /\ [](EventApplied =>
            /\ EventOfOnePacket
            /\ polled.device \in DOMAIN cache =>
                  \A i \in 1..Len(polled.attributes) :
                      LET key == polled.attributes[i][1]
                      IN  /\ key \in DOMAIN cache[polled.device].attributes
                          /\ cache[polled.device].attributes[key]
                                = LastValue(polled.attributes, key))
    /\ [][\A c \in ConnIds :
            TakesStatusMessage(c) =>
                /\ polled'.result = "event"
                /\ polled'.conn = c
                /\ polled'.packet = Head(inbox[c])
                /\ polled'.device \o StatusSuffix
                      = SubSeq(polled'.packet.topic, Len(WifiElement) + 1,
                               Len(polled'.packet.topic))]_vars

C11_SwitchOnCached ==
    /\ EventApplied
    /\ polled.device = LifeMac
    /\ polled.attributes = <<<<"switch", "1">>>>
    /\ cache[LifeMac].attributes["switch"] = "1"

Malformed(payload) ==
    \/ payload.shape # "array"
    \/ \E i \in 1..Len(payload.items) :
          ~IsSome(payload.items[i].type) \/ ~IsSome(payload.items[i].value)

\* C12: a step in which the pump's poll takes a malformed message on the
\* status topic of a device leaves the cached attributes of every other
\* device as they were.
C12_MalformedLeavesOthers ==
    [][\A c \in ConnIds, mac \in {LifeMac, OtherMac, AbsentMac} :
          (/\ pump.pc = "polling"
           /\ inbox[c] # <<>>
           /\ inbox'[c] = Tail(inbox[c])
           /\ Head(inbox[c]).kind = "Publish"
           /\ Head(inbox[c]).topic = StatusTopic(mac)
           /\ Malformed(Head(inbox[c]).payload))
              => \A d \in DOMAIN cache :
                    d # mac => /\ d \in DOMAIN cache'
                               /\ cache'[d].attributes = cache[d].attributes]_vars

C12_MalformedTaken ==
    /\ polled.result = "panic"
    /\ polled.packet.topic = StatusTopic(LifeMac)
    /\ Malformed(polled.packet.payload)
    /\ pump.pc = "panicked"
    /\ OtherMac \in DOMAIN cache

\* C13: every subscribe and every publish that a call puts on the request
\* channel carries the QoS the client is configured with at that call.
C13_UniformQoS ==
    [][(/\ last' # last
        /\ last'.result = "ok"
        /\ last'.subs + last'.pubs > 0)
          => /\ last'.req.type = "Publish" => last'.req.qos = preferred_qos
             /\ last'.req.type = "Subscribe" =>
                   \A i \in 1..Len(last'.req.filters) :
                       last'.req.filters[i].qos = preferred_qos]_vars

\* C14: once poll has returned Disconnected on a handler, the connection of
\* that handler is never up again and no later poll on it returns an event.
C14_DisconnectedIsTerminal ==
    \A c \in ConnIds :
        disconnected[c] =>
            /\ conns[c].net = "down"
            /\ (polled.conn = c /\ polled.result = "event") => ~polled.after

\* C15: while the server serves, a step that changes the cache is a step of the
\* pump applying a pair of an event; a step of the toggle route, of the set
\* route or of a publish of the client leaves every cache entry as it was, so
\* the cache keeps the old value after a publish until an event is applied.
C15_OnlyPumpWritesCache ==
    [][serverPc = "serving" =>
          /\ cache' # cache =>
                /\ pump.pc = "applying"
                /\ cache' = Merged(cache, pump.device, Head(pump.todo)[1], Head(pump.todo)[2])
          /\ (response' # response \/ setCall' # setCall \/ last' # last \/ bulk' # bulk)
                => cache' = cache]_vars

\* The toggle route answered 200 with the new value and the cache still holds
\* the value it read; no event has been applied.
C15_PublishedNotCached ==
    /\ response.route = "toggle"
    /\ response.status = 200
    /\ response.pubs = 1
    /\ applied = <<>>
    /\ cache[response.id].attributes["switch"] = Unwrap(response.cached)
    /\ cache[response.id].attributes["switch"] # response.value

\* C16: the pump applying the pair (key, value) of an event for a cached
\* device sets that key of that device to the value, inserting the key when
\* it is new, and leaves the other keys, the other fields and the other
\* devices as they were; for an id that is not cached the pair is dropped and
\* no entry appears; taking an event without pairs changes nothing.
C16_MergeIntoDevice ==
    [][/\ (pump.pc = "applying" /\ pump' # pump) =>
            LET d == pump.device
                k == Head(pump.todo)[1]
                v == Head(pump.todo)[2]
            IN  /\ DOMAIN cache' = DOMAIN cache
                /\ \A e \in DOMAIN cache \ {d} : cache'[e] = cache[e]
                /\ d \in DOMAIN cache =>
                      /\ DOMAIN cache'[d].attributes = DOMAIN cache[d].attributes \cup {k}
                      /\ cache'[d].attributes[k] = v
                      /\ \A j \in DOMAIN cache[d].attributes \ {k} :
                            cache'[d].attributes[j] = cache[d].attributes[j]
                      /\ cache'[d].mac = cache[d].mac
                      /\ cache'[d].category = cache[d].category
                      /\ cache'[d].type_code = cache[d].type_code
       /\ (polled' # polled /\ polled'.result = "event" /\ polled'.attributes = <<>>) =>
            /\ cache' = cache
            /\ pump'.pc = "polling"]_vars

\* A key was overwritten and a key was inserted for one device, and a pair for
\* an id that is not cached is about to be dropped.
C16_InsertedAndOverwritten ==
    /\ LifeMac \in DOMAIN cache
    /\ "brightness" \in DOMAIN cache[LifeMac].attributes
    /\ cache[LifeMac].attributes["switch"] = "1"
    /\ pump.pc = "applying"
    /\ pump.device = AbsentMac

C18_IdsConstant ==
    serverPc = "serving" =>
        /\ DOMAIN cache = DOMAIN snapshot
        /\ \A d \in DOMAIN cache : cache[d].mac = d

\* An event for a cached device was applied, an event for an id that is not
\* cached was taken, a bulk write was published and all devices were read.
C18_AfterEventsAndWrites ==
    /\ serverPc = "serving"
    /\ applied # <<>>
    /\ pump.pc = "polling"
    /\ polled.result = "event"
    /\ polled.device = AbsentMac
    /\ last.op = "set_device_attributes"
    /\ last.result = "ok"
    /\ response.route = "get_devices"
    /\ Cardinality(response.body) = 2

\* C19: a call of set_device_attributes that returns Ok has put exactly one
\* publish on the channel, on the update topic of its device, whose payload is
\* an array with one record per input pair, in input order, each with the
\* device id, the key and the value; building the records puts nothing on the
\* channel, and a call that fails puts nothing on it.  The route passes each
\* entry of the attribute map once.
C19_OneArrayMessage ==
    [][/\ (IsSome(bulk) /\ bulk' = NoneV) =>
            LET b == Unwrap(bulk)
                req == last'.req
            IN  /\ last'.op = "set_device_attributes"
                /\ Len(b.input) = Cardinality(DOMAIN Head(setCall.todo)[2])
                /\ last'.result = "ok" =>
                      /\ last'.pubs = 1
                      /\ conns' = Enqueued(Unwrap(state).mqtt, req)
                      /\ req.type = "Publish"
                      /\ req.topic = UpdateTopic(b.mac)
                      /\ req.payload.kind = "array"
                      /\ Len(req.payload.records) = Len(b.input)
                      /\ \A i \in 1..Len(b.input) :
                            /\ req.payload.records[i].dn = b.mac
                            /\ req.payload.records[i].type = b.input[i][1]
                            /\ req.payload.records[i].value = b.input[i][2]
                /\ last'.result # "ok" => last'.pubs = 0 /\ conns' = conns
       /\ (bulk' # bulk /\ IsSome(bulk')) => conns' = conns]_vars

\* Within one request the call without attributes has sent its message, an
\* empty array, and the call with two attributes has built its two records.
C19_EmptyThenTwo ==
    /\ last.op = "set_device_attributes"
    /\ last.result = "ok"
    /\ last.pubs = 1
    /\ last.req.payload = [kind |-> "array", records |-> <<>>]
    /\ last.req.topic = UpdateTopic(LifeMac)
    /\ IsSome(bulk)
    /\ Len(Unwrap(bulk).body) = 2
    /\ Unwrap(bulk).input[1][1] = "brightness"

\* wifielement/<one or more of 0-9 A-F :>/status
IsStatusTopic(topic) ==
    \E n \in 1..(Len(topic) - Len(WifiElement)) :
        LET d == SubSeq(topic, Len(WifiElement) + 1, Len(WifiElement) + n)
        IN  /\ Len(d) = n
            /\ \A i \in 1..n : d[i] \in MacChars
            /\ topic = StatusTopic(d)

\* The handler that the caller holds takes the packet at the head of the
\* inbox of connection c.
PollTakes(c) ==
    /\ conns[c].holder = "caller"
    /\ conns[c].net = "up"
    /\ inbox[c] # <<>>
    /\ inbox'[c] = Tail(inbox[c])

Absorbed(c) ==
    /\ polled' = polled
    /\ disconnected' = disconnected
    /\ conns'[c].holder = conns[c].holder
    /\ conns'[c].net = conns[c].net

\* C20: poll returns an event only for a publish whose topic matches the
\* status pattern; every other inbound packet it takes, and every outgoing
\* packet, is absorbed: poll returns nothing, no error, and goes on waiting.
C20_OthersAbsorbed ==
    [][/\ \A c \in ConnIds :
            PollTakes(c) =>
               LET packet == Head(inbox[c])
                   status == packet.kind = "Publish" /\ IsStatusTopic(packet.topic)
               IN  /\ (polled' # polled /\ polled'.result = "event") => status
                   /\ ~status => Absorbed(c)
       /\ \A c \in ConnIds :
            (conns[c].holder = "caller" /\ Len(conns'[c].queue) < Len(conns[c].queue))
                => polled' = polled /\ disconnected' = disconnected]_vars

\* C20, amended: as C20, but for a Disconnect frame, on which poll returns the
\* error Disconnected.
C20_OthersButDisconnectAbsorbed ==
    [][/\ \A c \in ConnIds :
            PollTakes(c) =>
               LET packet == Head(inbox[c])
                   status == packet.kind = "Publish" /\ IsStatusTopic(packet.topic)
               IN  /\ (polled' # polled /\ polled'.result = "event") =>
                          /\ status
                          /\ packet.topic = StatusTopic(polled'.device)
                   /\ (~status /\ packet.kind # "Disconnect") => Absorbed(c)
                   /\ packet.kind = "Disconnect" =>
                          polled'.result = "Disconnected" /\ disconnected'[c]
       /\ \A c \in ConnIds :
            (conns[c].holder = "caller" /\ Len(conns'[c].queue) < Len(conns[c].queue))
                => polled' = polled /\ disconnected' = disconnected]_vars

\* After a reconnect the handler has taken the ConnAck, a packet that is not a
\* publish: poll has returned nothing since and the connection is up.
C20_ConnAckAbsorbed ==
    \E c \in ConnIds :
        /\ disconnected[c]
        /\ conns[c].holder = "caller"
        /\ conns[c].net = "up"
        /\ inbox[c] = <<>>
        /\ polled.result = "Disconnected"

\* C21: the packets of a connection wait in the order the broker delivered
\* them and poll takes the oldest one, one per iteration; a poll that returns
\* an event returns the one event of the oldest waiting packet, a status
\* message, and only when the pump has applied the event before it whole;
\* the pump applies the pairs of the event poll returned last, in their order.
C21_EventsInArrivalOrder ==
    /\ [](pump.pc = "applying" =>
            /\ polled.result = "event"
            /\ pump.device = polled.device
            /\ \E n \in 0..Len(polled.attributes) :
                  pump.todo = SubSeq(polled.attributes, n + 1, Len(polled.attributes)))
    /\ [][/\ \A c \in ConnIds :
               /\ Len(inbox'[c]) > Len(inbox[c]) =>
                     /\ Len(inbox'[c]) = Len(inbox[c]) + 1
                     /\ SubSeq(inbox'[c], 1, Len(inbox[c])) = inbox[c]
               /\ Len(inbox'[c]) < Len(inbox[c]) =>
                     /\ inbox'[c] = Tail(inbox[c])
                     /\ pump.pc = "polling"
                     /\ LET packet == Head(inbox[c])
                            status == packet.kind = "Publish" /\ IsStatusTopic(packet.topic)
                        IN  /\ (status /\ ~Malformed(packet.payload)) =>
                                  /\ polled'.result = "event"
                                  /\ polled'.packet = packet
                                  /\ polled'.conn = c
                                  /\ packet.topic = StatusTopic(polled'.device)
                                  /\ pump'.device = polled'.device
                                  /\ pump'.todo = polled'.attributes
                            /\ ~status => polled' = polled /\ pump' = pump
          /\ (polled' # polled /\ polled'.result = "event") =>
                \E c \in ConnIds : Len(inbox'[c]) < Len(inbox[c])
          /\ (pump.pc = "applying" /\ pump' # pump) =>
                /\ inbox' = inbox
                /\ polled' = polled
                /\ pump'.todo = Tail(pump.todo)]_vars

\* The event of one device has been applied, the event of another device has
\* been returned after it, and a further packet waits behind.
C21_SecondEventTaken ==
    \E c \in ConnIds :
        /\ <<LifeMac, "brightness">> \in DOMAIN applied
        /\ pump.pc = "applying"
        /\ polled.device = OtherMac
        /\ Len(inbox[c]) = 1
        /\ inbox[c][1].topic = StatusTopic(LifeMac)

\* C22: while the listener holds the event loop, as long as requests keep
\* waiting on the channel the oldest one is handed to the network again and
\* again, and the requests leave in the order they were accepted, so each
\* accepted request is eventually handed over; while the caller holds the
\* handler and never polls, no request leaves the channel and nothing reaches
\* the broker, the channel never holds more than 10 requests, and with 10
\* waiting no further subscribe or publish call returns.
C22_ProgressOnlyWhenPumped ==
    /\ [](\A c \in ConnIds : Len(conns[c].queue) <= Cap)
    /\ [][\A c \in ConnIds :
             /\ conns'[c].queue # conns[c].queue =>
                   \/ conns'[c].queue = Append(conns[c].queue, last'.req)
                   \/ conns[c].holder = "listener" /\ conns'[c].queue = Tail(conns[c].queue)
             /\ (conns[c].holder = "caller" /\ conns'[c].holder = "caller") =>
                   /\ subscribed'[c] = subscribed[c]
                   /\ Len(conns[c].queue) = Cap => last' = last /\ conns' = conns]_vars
    /\ \A c \in ConnIds :
          \/ <>[](conns[c].holder # "listener" \/ conns[c].queue = <<>>)
          \/ []<><<conns[c].queue # <<>> /\ conns'[c].queue = Tail(conns[c].queue)>>_vars

\* No listener, no poll: ten requests wait on the channel.
C22_ChannelFull ==
    \E c \in ConnIds :
        /\ conns[c].holder = "caller"
        /\ Len(conns[c].queue) = Cap
        /\ subscribed[c] = {}
        /\ last.result = "ok"

\* C23: close puts the Disconnect behind the requests already waiting on the
\* channel; a close that has a listener to join has not returned while that
\* listener task runs; and, the broker ending the connection once it has the
\* Disconnect, a close that waits for the listener does return.
C23_CloseJoinsListener ==
    /\ [](IsSome(closing) /\ IsSome(Unwrap(closing).listener_handle) =>
            /\ clientPc = "closed" =>
                  conns[Unwrap(Unwrap(closing).listener_handle)].holder # "listener"
            /\ conns[Unwrap(Unwrap(closing).listener_handle)].holder = "listener" =>
                  clientPc = "joining" /\ last.result = "joining")
    /\ [][(clientPc = "idle" /\ clientPc' # "idle" /\ IsSome(state)) =>
             LET c == Unwrap(state).mqtt
             IN  \/ ChannelClosed(c) /\ conns' = conns
                 \/ conns' = [conns EXCEPT ![c].queue = conns[c].queue \o <<DisconnectRequest>>]]_vars
    /\ (clientPc = "joining") ~> (clientPc = "closed" /\ last.result = "ok")

\* close has returned after joining the listener, which handed over a publish
\* and then the Disconnect.
C23_ClosedAfterJoin ==
    /\ clientPc = "closed"
    /\ last.op = "close"
    /\ last.result = "ok"
    /\ IsSome(closing)
    /\ IsSome(Unwrap(closing).listener_handle)
    /\ conns[Unwrap(closing).mqtt].holder = "dropped"
    /\ conns[Unwrap(closing).mqtt].queue = <<>>
    /\ pubLog # <<>>

\* Nothing is on its way to the cache: no packet waits, the pump has applied
\* what it took, no request waits on the channel.
Settled ==
    /\ serverPc = "serving"
    /\ pump.pc = "polling"
    /\ \A c \in ConnIds : inbox[c] = <<>> /\ conns[c].queue = <<>>

\* C24: with nothing on its way to the cache, the cached switch of the device
\* differs from the switch of the device only when a change of the device
\* after the snapshot went by while no connection was subscribed to its
\* status topic.
C24_StaleOnlyByGap ==
    (Settled /\ cache[LifeMac].attributes["switch"] # world.switch) => world.missed

\* The state the claim describes: the subscription is in effect, nothing is
\* on its way, and the cache holds the snapshot value while the device has
\* another.
C24_MissedInGap ==
    /\ Settled
    /\ \E c \in ConnIds : StatusTopic(LifeMac) \in subscribed[c]
    /\ cache[LifeMac].attributes["switch"] = snapshot[LifeMac].attributes["switch"]
    /\ cache[LifeMac].attributes["switch"] # world.switch
    /\ applied = <<>>

\* wifielement/<id>/status, whatever the characters of the id
OnStatusTopic(packet) ==
    /\ packet.kind = "Publish"
    /\ Len(packet.topic) > Len(WifiElement) + Len(StatusSuffix)
    /\ SubSeq(packet.topic, 1, Len(WifiElement)) = WifiElement
    /\ SubSeq(packet.topic, Len(packet.topic) - Len(StatusSuffix) + 1, Len(packet.topic))
          = StatusSuffix

\* C25: the poll of the pump that takes a publish on a status topic whose
\* payload does not parse returns neither an event nor an error, the pump
\* task ends there and the cache stays as it is; once the pump task has ended
\* so, the cache never changes again.
C25_MalformedEndsPump ==
    [][/\ \A c \in ConnIds :
            (PollTakes(c) /\ OnStatusTopic(Head(inbox[c]))
                /\ Malformed(Head(inbox[c]).payload)) =>
               /\ polled'.result = "panic"
               /\ polled'.packet = Head(inbox[c])
               /\ pump'.pc = "panicked"
               /\ cache' = cache
       /\ pump.pc = "panicked" => (cache' = cache /\ pump' = pump /\ polled' = polled)]_vars

\* The circular wait: a toggle handler keeps its Ref while its publish waits
\* for room on the channel, and the pump, the only task that takes requests
\* off the channel, waits for write access to the same entry.
CircularWait ==
    /\ pump.pc = "applying"
    /\ ~WriteAccess(pump.device)
    /\ IsSome(state)
    /\ conns[Unwrap(state).mqtt].holder # "dropped"
    /\ ~HasRoom(Unwrap(state).mqtt)

\* C26: the toggle handlers and the pump never deadlock: no state has a
\* handler that waits for the pump to free room on the channel while the
\* pump waits for that handler to let go of the cache entry.
C26_NeverDeadlock == ~CircularWait

\* C27: in the server no inbound message is delivered, decoded or applied
\* before the whole snapshot is in the cache: the snapshot call only queues
\* its SUBSCRIBE, which the pump, spawned after the inserts, is the first to
\* hand over; so every device the connection is subscribed to is cached and
\* no event is dropped for want of its entry.
C27_SnapshotBeforeEvents ==
    /\ [](\A c \in ConnIds :
            (inbox[c] # <<>> \/ subscribed[c] # {} \/ polled.result = "event"
                \/ pump.pc = "applying")
              => /\ serverPc = "serving"
                 /\ \A i \in 1..Len(CacheDevices) : CacheDevices[i].mac \in DOMAIN cache)
    /\ [](\A c \in ConnIds, m \in {LifeMac, OtherMac, AbsentMac} :
            StatusTopic(m) \in subscribed[c] => m \in DOMAIN cache)
    /\ [](pump.pc = "applying" => pump.device \in DOMAIN cache)
    /\ [][(serverPc = "started" /\ serverPc' = "cached")
            => /\ subscribed' = subscribed
               /\ inbox' = inbox
               /\ polled' = polled
               /\ \E c \in ConnIds :
                     /\ last'.req # NoRequest
                     /\ last'.req.type = "Subscribe"
                     /\ conns' = [conns EXCEPT ![c].queue = Append(@, last'.req)]]_vars

\* The pump applies an event of the second device of the snapshot.
C27_SecondDeviceApplied ==
    /\ pump.pc = "applying"
    /\ pump.device = OtherMac
    /\ OtherMac \in DOMAIN cache

\* C28: for every device id the client is subscribed to, the decoder's
\* pattern accepts the status topic the subscription was built with and
\* gives back that id.
C28_TopicRoundTrip ==
    \A c \in ConnIds, m \in TopicIds :
        StatusTopic(m) \in subscribed[c] => TopicDevice(StatusTopic(m)) = Some(m)

====
